---- MODULE Spec2Model ----
(***************************************************************************)
(* Block storage engine of wasql (src/block.c): a virtual file is sharded  *)
(* into fixed-size block files "<name>.blocks/block_NNNNNN".               *)
(*                                                                         *)
(* The filesystem is a set of block directories (dirs) and, per virtual    *)
(* file name, a map from block index to the bytes of that block file (fs). *)
(* Every filesystem call is reliable here: fopen fails only when the file  *)
(* (or, for "wb", its directory) is absent.                                *)
(*                                                                         *)
(* Scaling: block.c has BLOCK_SIZE 4096 and a 32-bit int.  The arithmetic  *)
(* of block.c is parametric in both, so the model runs it with a block of  *)
(* BLOCK_SIZE bytes and an int of INT_RANGE values; the scan limit 10000   *)
(* of truncate and size is kept exactly.                                   *)
(***************************************************************************)
EXTENDS Integers, Sequences, FiniteSets, TLC

VARIABLES dirs, fs, handles, dirty, last, pfs,
          inflight, useBlockStorage, plain, reals,
          granted, loggingEnabled, logFile

vars == <<dirs, fs, handles, dirty, last, pfs,
          inflight, useBlockStorage, plain, reals,
          granted, loggingEnabled, logFile>>

\* ---------------------------------------------------------------- bounds
BLOCK_SIZE == 3
INT_RANGE == 65536
RegionEnd == 7
MaxWrite == 5
MaxRead == 5

\* ------------------------------------------------------ program constants
SCAN_LIMIT == 10000
MAX_PATH_LEN == 1024

Names == {"a", "b"}
Handles == {1, 2}
NULL == "NULL"
\* A zero byte and a non-zero byte.
Bytes == {0, 1}
\* What a caller's buffer holds before block_read assigns it.
GARBAGE == 255

\* ------------------------------------------------------------- C integers
\* Conversion of a long long to int (block.c:77, 122, 187, 210).
ToInt(x) ==
  LET m == x % INT_RANGE
  IN IF m >= (INT_RANGE + 1) \div 2 THEN m - INT_RANGE ELSE m

\* C division truncates toward zero; operands here are never negative.
BlockNum(offset) == ToInt(offset \div BLOCK_SIZE)
BlockOffset(offset) == offset % BLOCK_SIZE

Min(a, b) == IF a < b THEN a ELSE b
Max(a, b) == IF a > b THEN a ELSE b

\* ------------------------------------------------------------------ paths
\* A name of LongNameLen characters: "%s.blocks" does not fit block_dir.
LongName == "long"
LongNameLen == 1020
\* strlen(filename): the short names have one character.
NameLen(filename) == IF filename = LongName THEN LongNameLen ELSE 1

Digits(n) ==
  LET a == IF n < 0 THEN 0 - n ELSE n
      d == IF a < 10 THEN 1 ELSE IF a < 100 THEN 2 ELSE IF a < 1000 THEN 3
           ELSE IF a < 10000 THEN 4 ELSE IF a < 100000 THEN 5
           ELSE IF a < 1000000 THEN 6 ELSE IF a < 10000000 THEN 7
           ELSE IF a < 100000000 THEN 8 ELSE IF a < 1000000000 THEN 9 ELSE 10
  IN IF n < 0 THEN d + 1 ELSE d

\* "%s.blocks": the path of the block directory of a short name.
get_block_dir(filename) == filename \o ".blocks"

\* Length of "%s.blocks" as snprintf leaves it in block_dir.
BlockDirLen(filename) == Min(NameLen(filename) + 7, MAX_PATH_LEN - 1)

\* get_block_path: 0, or -1 when "%s/block_%06d" does not fit.
get_block_path(filename, block_num) ==
  LET result == BlockDirLen(filename) + 7 + Max(6, Digits(block_num))
  IN IF result >= MAX_PATH_LEN THEN -1 ELSE 0

\* ------------------------------------------------------------ block files
Zeros(n) == [i \in 1..n |-> 0]
Fill(n, v) == [i \in 1..n |-> v]

\* fread(block_data, 1, BLOCK_SIZE, existing) into a zeroed block_data.
LoadBlock(files, b) ==
  IF b \in DOMAIN files
  THEN [i \in 1..BLOCK_SIZE |-> IF i <= Len(files[b]) THEN files[b][i] ELSE 0]
  ELSE Zeros(BLOCK_SIZE)

PutFile(files, b, content) ==
  [x \in (DOMAIN files) \cup {b} |-> IF x = b THEN content ELSE files[x]]

RemoveFiles(files, gone) ==
  [x \in (DOMAIN files) \ gone |-> files[x]]

\* ------------------------------------------------------------- block_read
\* Mutant: the whole remaining range is taken in one iteration.
ToRead_NoSplit(size, block_offset) == size

ToRead(size, block_offset) ==
  IF size < BLOCK_SIZE - block_offset THEN size ELSE BLOCK_SIZE - block_offset

\* Mutant: an absent block leaves the caller's bytes as they were.
ReadChunk_NoZeroFill(files, block_num, block_offset, to_read, old) ==
  IF block_num \notin DOMAIN files
  THEN old
  ELSE LET avail == Len(files[block_num]) - block_offset
           bytes_read == IF avail < 0 THEN 0 ELSE Min(to_read, avail)
       IN [i \in 1..to_read |->
             IF i <= bytes_read THEN files[block_num][block_offset + i] ELSE 0]

\* Mutant: a short fread leaves the rest of the sub-span as it was.
ReadChunk_ShortRead(files, block_num, block_offset, to_read, old) ==
  IF block_num \notin DOMAIN files
  THEN Zeros(to_read)
  ELSE LET avail == Len(files[block_num]) - block_offset
           bytes_read == IF avail < 0 THEN 0 ELSE Min(to_read, avail)
       IN [i \in 1..to_read |->
             IF i <= bytes_read THEN files[block_num][block_offset + i] ELSE old[i]]

\* One iteration of block_read's loop (block.c:86-102): the to_read bytes
\* stored over old, the caller's bytes at that place.
ReadChunk(files, block_num, block_offset, to_read, old) ==
  IF block_num \notin DOMAIN files
  THEN Zeros(to_read)
  ELSE LET avail == Len(files[block_num]) - block_offset
           bytes_read == IF avail < 0 THEN 0 ELSE Min(to_read, avail)
       IN [i \in 1..to_read |->
             IF i <= bytes_read THEN files[block_num][block_offset + i] ELSE 0]

RECURSIVE ReadLoop(_, _, _, _, _, _)
ReadLoop(files, filename, buf, total_read, size, offset) ==
  IF size <= 0
  THEN [rc |-> total_read, buf |-> buf]
  ELSE LET block_num == BlockNum(offset)
           block_offset == BlockOffset(offset)
           to_read == ToRead(size, block_offset)
       IN IF get_block_path(filename, block_num) # 0
          THEN [rc |-> -1, buf |-> buf]
          ELSE LET old == [i \in 1..to_read |-> buf[total_read + i]]
                   chunk == ReadChunk(files, block_num, block_offset, to_read, old)
                   nbuf == [i \in 1..Len(buf) |->
                              IF i > total_read /\ i <= total_read + to_read
                              THEN chunk[i - total_read] ELSE buf[i]]
               IN ReadLoop(files, filename, nbuf, total_read + to_read,
                           size - to_read, offset + to_read)

\* block_read(bf, buffer, size, offset) on the block files of bf->filename;
\* bf is NULL or a file name.
block_read(files, bf, buffer, size, offset) ==
  IF bf = NULL \/ size < 0 \/ offset < 0
  THEN [rc |-> -1, buf |-> buffer]
  ELSE ReadLoop(files, bf, buffer, 0, size, offset)

\* ------------------------------------------------------------ block_write
\* Mutant: the new bytes are copied to the start of block_data.
WriteBlock_NoOffset(files, block_num, block_offset, chunk) ==
  IF block_offset # 0 \/ Len(chunk) # BLOCK_SIZE
  THEN LET block_data == LoadBlock(files, block_num)
       IN PutFile(files, block_num,
                  [i \in 1..BLOCK_SIZE |->
                     IF i <= Len(chunk) THEN chunk[i] ELSE block_data[i]])
  ELSE PutFile(files, block_num, chunk)

\* Mutant: a partial write stores the block only up to the end of the new bytes.
WriteBlock_Short(files, block_num, block_offset, chunk) ==
  IF block_offset # 0 \/ Len(chunk) # BLOCK_SIZE
  THEN LET block_data == LoadBlock(files, block_num)
       IN PutFile(files, block_num,
                  [i \in 1..(block_offset + Len(chunk)) |->
                     IF i > block_offset THEN chunk[i - block_offset]
                     ELSE block_data[i]])
  ELSE PutFile(files, block_num, chunk)

\* Mutant: a partial write appends the new bytes to the block read.
WriteBlock_Append(files, block_num, block_offset, chunk) ==
  IF block_offset # 0 \/ Len(chunk) # BLOCK_SIZE
  THEN PutFile(files, block_num, LoadBlock(files, block_num) \o chunk)
  ELSE PutFile(files, block_num, chunk)

\* The block file one iteration of block_write's loop leaves (block.c:133-170).
WriteBlock(files, block_num, block_offset, chunk) ==
  IF block_offset # 0 \/ Len(chunk) # BLOCK_SIZE
  THEN LET block_data == LoadBlock(files, block_num)
       IN PutFile(files, block_num,
                  [i \in 1..BLOCK_SIZE |->
                     IF i > block_offset /\ i <= block_offset + Len(chunk)
                     THEN chunk[i - block_offset] ELSE block_data[i]])
  ELSE PutFile(files, block_num, chunk)

RECURSIVE WriteLoop(_, _, _, _, _, _, _)
WriteLoop(files, dirExists, filename, data, total_written, size, offset) ==
  IF size <= 0
  THEN [rc |-> total_written, files |-> files]
  ELSE LET block_num == BlockNum(offset)
           block_offset == BlockOffset(offset)
           to_write == ToRead(size, block_offset)
       IN IF get_block_path(filename, block_num) # 0 \/ ~dirExists
          THEN [rc |-> -1, files |-> files]
          ELSE LET chunk == [i \in 1..to_write |-> data[total_written + i]]
               IN WriteLoop(WriteBlock(files, block_num, block_offset, chunk),
                            dirExists, filename, data, total_written + to_write,
                            size - to_write, offset + to_write)

block_write(files, dirExists, bf, data, size, offset) ==
  IF bf = NULL \/ size < 0 \/ offset < 0
  THEN [rc |-> -1, files |-> files]
  ELSE WriteLoop(files, dirExists, bf, data, 0, size, offset)

\* --------------------------------------------------------- block_truncate
\* Mutant: the unlink loop starts one block late.
UnlinkFrom_OffByOne(files, last_block) ==
  RemoveFiles(files, {b \in DOMAIN files : b > last_block /\ b < SCAN_LIMIT})

\* The unlink loop (block.c:194-206).  The path is longest at the first
\* block_num of the loop, so get_block_path fails there or nowhere.
UnlinkFrom(files, last_block) ==
  RemoveFiles(files, {b \in DOMAIN files : b >= last_block /\ b < SCAN_LIMIT})

\* The rewrite of the boundary block (block.c:209-232).
RewriteLast(files, dirExists, size) ==
  IF size > 0 /\ (size % BLOCK_SIZE) # 0
  THEN LET last_block_num == ToInt((size - 1) \div BLOCK_SIZE)
           last_block_size == size % BLOCK_SIZE
           block_data == LoadBlock(files, last_block_num)
       IN IF dirExists
          THEN PutFile(files, last_block_num,
                       [i \in 1..last_block_size |-> block_data[i]])
          ELSE files
  ELSE files

\* Mutant: a negative size is not rejected.
block_truncate_NoSizeCheck(files, dirExists, bf, size) ==
  IF bf = NULL
  THEN [rc |-> -1, files |-> files]
  ELSE LET last_block == ToInt((size + BLOCK_SIZE - 1) \div BLOCK_SIZE)
       IN IF last_block < SCAN_LIMIT /\ get_block_path(bf, last_block) # 0
          THEN [rc |-> -1, files |-> files]
          ELSE [rc |-> 0,
                files |-> RewriteLast(UnlinkFrom(files, last_block), dirExists, size)]

block_truncate(files, dirExists, bf, size) ==
  IF bf = NULL \/ size < 0
  THEN [rc |-> -1, files |-> files]
  ELSE LET last_block == ToInt((size + BLOCK_SIZE - 1) \div BLOCK_SIZE)
       IN IF last_block < SCAN_LIMIT /\ get_block_path(bf, last_block) # 0
          THEN [rc |-> -1, files |-> files]
          ELSE [rc |-> 0,
                files |-> RewriteLast(UnlinkFrom(files, last_block), dirExists, size)]

\* -------------------------------------------------------- block_file_size
SetMax(S) == IF S = {} THEN 0 ELSE CHOOSE x \in S : \A y \in S : y <= x

\* block.c:256-260: where block block_num with st_size bytes ends.
BlockEnd(block_num, st_size) ==
  IF st_size < BLOCK_SIZE
  THEN block_num * BLOCK_SIZE + st_size
  ELSE (block_num + 1) * BLOCK_SIZE

block_file_size(files, bf) ==
  IF bf = NULL THEN -1
  ELSE IF get_block_path(bf, 0) # 0 THEN -1
  ELSE SetMax({BlockEnd(b, Len(files[b])) :
                 b \in {x \in DOMAIN files : x >= 0 /\ x < SCAN_LIMIT}})

\* ------------------------------------------------- block_open, block_close
\* ensure_block_dir: the directories after stat, and mkdir when stat fails.
\* A name in ds stands for the directory at the path get_block_dir leaves
\* in block_dir, cut to MAX_PATH_LEN - 1 characters when it does not fit.
ensure_block_dir(ds, filename) ==
  IF filename \in ds THEN ds ELSE ds \cup {filename}

\* block_open stores a copy of the name in the handle.
block_open(filename) == filename

\* Mutant: close removes the block files of the handle's name.
block_close_Wipe(allfiles, bf) == [allfiles EXCEPT ![bf] = <<>>]

\* block_close frees the handle; the block files stay as they are.
block_close(allfiles, bf) == allfiles

\* Mutant: each handle keeps a file of its own.
FileOf_PerHandle(h) == IF h = 1 THEN "a" ELSE "b"

\* The file a handle operates on: bf->filename.
FileOf(h) == handles[h]

\* ----------------------------------------------------------------- inputs
\* Offsets of the region the model writes: blocks 0 .. (RegionEnd-1)/BLOCK_SIZE.
Offsets == 0..(RegionEnd - 1)
\* An offset in block SCAN_LIMIT, and one whose block index does not fit int.
FarBlock == SCAN_LIMIT * BLOCK_SIZE + 1
WrapZero == INT_RANGE * BLOCK_SIZE
FarOffsets == {FarBlock, WrapZero}
\* Sizes for truncate: those, and one byte into the block after WrapZero's.
FarSizes == FarOffsets \cup {WrapZero + 1}

\* byte[i] alternates from v, as the tests fill their buffers with i % 256.
Pattern(n, v) == [i \in 1..n |-> (v + i - 1) % 2]
DataOfLen(n) == {Pattern(n, v) : v \in Bytes}

Buffer(n) == Fill(n, GARBAGE)

\* Result codes of the VFS methods (sqlite3.h), by name.
SQLITE_OK == "SQLITE_OK"
SQLITE_CANTOPEN == "SQLITE_CANTOPEN"
SQLITE_IOERR_READ == "SQLITE_IOERR_READ"
SQLITE_IOERR_WRITE == "SQLITE_IOERR_WRITE"
SQLITE_IOERR_TRUNCATE == "SQLITE_IOERR_TRUNCATE"
SQLITE_IOERR_FSTAT == "SQLITE_IOERR_FSTAT"
SQLITE_IOERR_DELETE_NOENT == "SQLITE_IOERR_DELETE_NOENT"
SQLITE_IOERR_DELETE == "SQLITE_IOERR_DELETE"

\* Lock levels (sqlite3.h), as loggingLock names them.
SQLITE_LOCK_NONE == 0
SQLITE_LOCK_SHARED == 1
SQLITE_LOCK_RESERVED == 2
SQLITE_LOCK_PENDING == 3
SQLITE_LOCK_EXCLUSIVE == 4
SQLITE_BUSY == "SQLITE_BUSY"
SQLITE_ERROR == "SQLITE_ERROR"

\* Caller c is in no call.
NoCall == [pc |-> "idle"]

\* No call in progress.  sqlite_rc: the result of a VFS method.  noread,
\* nowrite, nounlink: the block files that
\* fopen("rb"), fopen("wb") and unlink refuse during a call for a reason
\* other than absence.
Idle ==
  [op |-> "idle", h |-> 0, name |-> NULL, offset |-> 0, size |-> 0,
   data |-> <<>>, rc |-> 0, buf |-> <<>>,
   noread |-> {}, nowrite |-> {}, nounlink |-> {}, sqlite_rc |-> SQLITE_OK]

\* ------------------------------------------------------------------ state
\* dirs: the block directories; fs[n][b]: the bytes of block file b of n;
\* handles[h]: bf->filename of handle h, or NULL; dirty: the names written or
\* truncated so far; last: the call that has just returned, with its
\* arguments and results; pfs: fs as that call found it.
\* inflight[c]: the call caller c is inside of, when calls run concurrently;
\* useBlockStorage: the VFS's mode flag; plain: the paths of the regular
\* files of the default VFS; reals[h]: pReal of VFS file h, or NULL.
\* granted[h]: the lock level the calls of xLock and xUnlock on VFS file h
\* have left its caller with; loggingEnabled: the VFS's logging flag;
\* logFile: whether the log stream is open.
Init ==
  /\ dirs = {}
  /\ fs = [n \in Names \cup {LongName} |-> <<>>]
  /\ handles = [h \in Handles |-> NULL]
  /\ dirty = {}
  /\ last = Idle
  /\ pfs = fs
  /\ inflight = [c \in Handles |-> NoCall]
  /\ useBlockStorage = FALSE
  /\ plain = {}
  /\ reals = [h \in Handles |-> NULL]
  /\ granted = [h \in Handles |-> SQLITE_LOCK_NONE]
  /\ loggingEnabled = TRUE
  /\ logFile = FALSE

Open(h, n) ==
  /\ last = Idle
  /\ handles[h] = NULL
  /\ dirs' = ensure_block_dir(dirs, n)
  /\ handles' = [handles EXCEPT ![h] = block_open(n)]
  /\ last' = [Idle EXCEPT !.op = "open", !.h = h, !.name = n]
  /\ pfs' = fs
  /\ UNCHANGED <<fs, dirty>>
  /\ UNCHANGED <<inflight, useBlockStorage, plain, reals>>
  /\ UNCHANGED <<granted, loggingEnabled, logFile>>

Close(h) ==
  /\ last = Idle
  /\ handles[h] # NULL
  /\ fs' = block_close(fs, handles[h])
  /\ handles' = [handles EXCEPT ![h] = NULL]
  /\ last' = [Idle EXCEPT !.op = "close", !.h = h, !.name = handles[h]]
  /\ pfs' = fs
  /\ UNCHANGED <<dirs, dirty>>
  /\ UNCHANGED <<inflight, useBlockStorage, plain, reals>>
  /\ UNCHANGED <<granted, loggingEnabled, logFile>>

\* Mutant: block_read opens each block file of its range for update and so
\* creates the ones that are not there.
Read_Creating(h, size, offset) ==
  /\ last = Idle
  /\ handles[h] # NULL
  /\ LET n == FileOf(h)
         r == block_read(fs[n], n, Buffer(size), size, offset)
         range == {BlockNum(offset + k) : k \in 0..(size - 1)}
     IN /\ last' = [Idle EXCEPT !.op = "read", !.h = h, !.name = handles[h],
                                !.offset = offset, !.size = size, !.rc = r.rc,
                                !.buf = r.buf]
        /\ fs' = [fs EXCEPT ![n] =
                    [b \in (DOMAIN fs[n]) \cup range |->
                       IF b \in DOMAIN fs[n] THEN fs[n][b] ELSE <<>>]]
  /\ pfs' = fs
  /\ UNCHANGED <<dirs, handles, dirty>>
  /\ UNCHANGED <<inflight, useBlockStorage, plain, reals>>
  /\ UNCHANGED <<granted, loggingEnabled, logFile>>

Read(h, size, offset) ==
  /\ last = Idle
  /\ handles[h] # NULL
  /\ LET n == FileOf(h)
         r == block_read(fs[n], n, Buffer(size), size, offset)
     IN last' = [Idle EXCEPT !.op = "read", !.h = h, !.name = handles[h],
                             !.offset = offset, !.size = size, !.rc = r.rc,
                             !.buf = r.buf]
  /\ pfs' = fs
  /\ UNCHANGED <<dirs, fs, handles, dirty>>
  /\ UNCHANGED <<inflight, useBlockStorage, plain, reals>>
  /\ UNCHANGED <<granted, loggingEnabled, logFile>>

Write(h, data, offset) ==
  /\ last = Idle
  /\ handles[h] # NULL
  /\ LET n == FileOf(h)
         r == block_write(fs[n], n \in dirs, n, data, Len(data), offset)
     IN /\ fs' = [fs EXCEPT ![n] = r.files]
        /\ last' = [Idle EXCEPT !.op = "write", !.h = h, !.name = handles[h],
                                !.offset = offset, !.size = Len(data),
                                !.data = data, !.rc = r.rc]
  /\ dirty' = dirty \cup {handles[h]}
  /\ pfs' = fs
  /\ UNCHANGED <<dirs, handles>>
  /\ UNCHANGED <<inflight, useBlockStorage, plain, reals>>
  /\ UNCHANGED <<granted, loggingEnabled, logFile>>

Truncate(h, size) ==
  /\ last = Idle
  /\ handles[h] # NULL
  /\ LET n == FileOf(h)
         r == block_truncate(fs[n], n \in dirs, n, size)
     IN /\ fs' = [fs EXCEPT ![n] = r.files]
        /\ last' = [Idle EXCEPT !.op = "truncate", !.h = h, !.name = handles[h],
                                !.size = size, !.rc = r.rc]
  /\ dirty' = dirty \cup {handles[h]}
  /\ pfs' = fs
  /\ UNCHANGED <<dirs, handles>>
  /\ UNCHANGED <<inflight, useBlockStorage, plain, reals>>
  /\ UNCHANGED <<granted, loggingEnabled, logFile>>

FileSize(h) ==
  /\ last = Idle
  /\ handles[h] # NULL
  /\ LET n == FileOf(h)
     IN last' = [Idle EXCEPT !.op = "size", !.h = h, !.name = handles[h],
                             !.rc = block_file_size(fs[n], n)]
  /\ pfs' = fs
  /\ UNCHANGED <<dirs, fs, handles, dirty>>
  /\ UNCHANGED <<inflight, useBlockStorage, plain, reals>>
  /\ UNCHANGED <<granted, loggingEnabled, logFile>>

\* The caller takes the result; the next call can start.
Return ==
  /\ last # Idle
  /\ last' = Idle
  /\ pfs' = fs
  /\ UNCHANGED <<dirs, fs, handles, dirty>>
  /\ UNCHANGED <<inflight, useBlockStorage, plain, reals>>
  /\ UNCHANGED <<granted, loggingEnabled, logFile>>

\* One virtual file through one handle at a time, over the whole region and
\* the far offsets.
Next ==
  \/ Open(1, "a")
  \/ Close(1)
  \/ \E size \in 0..MaxRead, offset \in Offsets \cup FarOffsets :
       Read(1, size, offset)
  \/ \E n \in 0..MaxWrite, offset \in Offsets :
       \E data \in DataOfLen(n) : offset + n <= RegionEnd /\ Write(1, data, offset)
  \/ \E offset \in FarOffsets : Write(1, <<1>>, offset)
  \/ \E size \in 0..RegionEnd : Truncate(1, size)
  \/ \E size \in FarSizes : Truncate(1, size)
  \/ FileSize(1)
  \/ Return

Spec == Init /\ [][Next]_vars

\* Two handles over two names, on the bytes around the first block boundary.
MultiOffsets == (BLOCK_SIZE - 2)..BLOCK_SIZE

NextMulti ==
  \/ \E h \in Handles, n \in Names : Open(h, n)
  \/ \E h \in Handles : Close(h)
  \/ \E h \in Handles, size \in 1..2, offset \in MultiOffsets : Read(h, size, offset)
  \/ \E h \in Handles, n \in 1..2, offset \in MultiOffsets :
       \E data \in DataOfLen(n) : Write(h, data, offset)
  \/ \E h \in Handles, size \in {0, BLOCK_SIZE - 1} : Truncate(h, size)
  \/ \E h \in Handles : FileSize(h)
  \/ Return

SpecMulti == Init /\ [][NextMulti]_vars

\* ------------------------------------------------- calls with bad arguments
\* The handle pointer a caller passes: 0 is the null pointer.
UsableArg(h) == IF h = 0 THEN TRUE ELSE handles[h] # NULL
BadCall(h, size, offset) == IF h = 0 THEN TRUE ELSE (size < 0 \/ offset < 0)
HandleArg(h) == IF h = 0 THEN NULL ELSE FileOf(h)
NameArg(h) == IF h = 0 THEN NULL ELSE handles[h]
FilesArg(bf) == IF bf = NULL THEN <<>> ELSE fs[bf]
\* The caller's buffer of these calls.
ArgBuffer == Buffer(2)

\* block_read with a null handle, a negative size or a negative offset.
ReadArgs(h, size, offset) ==
  /\ last = Idle
  /\ UsableArg(h)
  /\ BadCall(h, size, offset)
  /\ LET bf == HandleArg(h)
         r == block_read(FilesArg(bf), bf, ArgBuffer, size, offset)
     IN last' = [Idle EXCEPT !.op = "read", !.h = h, !.name = NameArg(h),
                             !.offset = offset, !.size = size, !.rc = r.rc,
                             !.buf = r.buf]
  /\ pfs' = fs
  /\ UNCHANGED <<dirs, fs, handles, dirty>>
  /\ UNCHANGED <<inflight, useBlockStorage, plain, reals>>
  /\ UNCHANGED <<granted, loggingEnabled, logFile>>

\* block_write with a null handle, a negative size or a negative offset.
WriteArgs(h, data, size, offset) ==
  /\ last = Idle
  /\ UsableArg(h)
  /\ BadCall(h, size, offset)
  /\ LET bf == HandleArg(h)
         r == block_write(FilesArg(bf), bf \in dirs, bf, data, size, offset)
     IN /\ fs' = IF bf = NULL THEN fs ELSE [fs EXCEPT ![bf] = r.files]
        /\ last' = [Idle EXCEPT !.op = "write", !.h = h, !.name = NameArg(h),
                                !.offset = offset, !.size = size,
                                !.data = data, !.rc = r.rc]
  /\ pfs' = fs
  /\ UNCHANGED <<dirs, handles, dirty>>
  /\ UNCHANGED <<inflight, useBlockStorage, plain, reals>>
  /\ UNCHANGED <<granted, loggingEnabled, logFile>>

\* block_truncate with a null handle or a negative size.
TruncateArgs(h, size) ==
  /\ last = Idle
  /\ UsableArg(h)
  /\ BadCall(h, size, 0)
  /\ LET bf == HandleArg(h)
         r == block_truncate(FilesArg(bf), bf \in dirs, bf, size)
     IN /\ fs' = IF bf = NULL THEN fs ELSE [fs EXCEPT ![bf] = r.files]
        /\ last' = [Idle EXCEPT !.op = "truncate", !.h = h, !.name = NameArg(h),
                                !.size = size, !.rc = r.rc]
  /\ pfs' = fs
  /\ UNCHANGED <<dirs, handles, dirty>>
  /\ UNCHANGED <<inflight, useBlockStorage, plain, reals>>
  /\ UNCHANGED <<granted, loggingEnabled, logFile>>

\* Valid writes and truncates around the first block boundary, and calls
\* whose handle, size or offset is invalid.
NextArgs ==
  \/ Open(1, "a")
  \/ Close(1)
  \/ \E n \in 1..2, offset \in MultiOffsets :
       \E data \in DataOfLen(n) : Write(1, data, offset)
  \/ \E size \in {0, BLOCK_SIZE - 1} : Truncate(1, size)
  \/ \E h \in {0, 1}, size \in {-1, 0, 2}, offset \in {-1, 0, BLOCK_SIZE} :
       ReadArgs(h, size, offset)
  \/ \E h \in {0, 1}, size \in {-1, 0, 2}, offset \in {-1, 0, BLOCK_SIZE} :
       WriteArgs(h, <<1, 1>>, size, offset)
  \/ \E h \in {0, 1}, size \in {-1, 0, BLOCK_SIZE + 1} : TruncateArgs(h, size)
  \/ Return

SpecArgs == Init /\ [][NextArgs]_vars

\* ------------------------------------------ calls on a failing filesystem
SetMin(S) == CHOOSE x \in S : \A y \in S : x <= y

\* block_read when fopen(block_path, "rb") fails on the blocks in noread:
\* the code takes every failed fopen for absence (block.c:86-89).
block_read_fault(files, noread, bf, buffer, size, offset) ==
  block_read(RemoveFiles(files, noread), bf, buffer, size, offset)

\* Mutant: a failed fopen("wb") ends the call with the bytes written so far.
RECURSIVE WriteLoopFault_Count(_, _, _, _, _, _, _, _, _)
WriteLoopFault_Count(files, noread, nowrite, dirExists, filename, data, total_written, size, offset) ==
  IF size <= 0
  THEN [rc |-> total_written, files |-> files]
  ELSE LET block_num == BlockNum(offset)
           block_offset == BlockOffset(offset)
           to_write == ToRead(size, block_offset)
       IN IF get_block_path(filename, block_num) # 0 \/ ~dirExists
          THEN [rc |-> -1, files |-> files]
          ELSE IF block_num \in nowrite
          THEN [rc |-> total_written, files |-> files]
          ELSE LET chunk == [i \in 1..to_write |-> data[total_written + i]]
                   seen == RemoveFiles(files, noread \cap {block_num})
               IN WriteLoopFault_Count(
                    WriteBlock(seen, block_num, block_offset, chunk),
                    noread, nowrite, dirExists, filename, data,
                    total_written + to_write, size - to_write, offset + to_write)

\* block_write's loop when fopen(block_path, "rb") fails on the blocks in
\* noread and fopen(block_path, "wb") on those in nowrite: an unreadable
\* block is taken as zeros (block.c:138-142), an unwritable one ends the
\* call with -1 (block.c:148-151, 160-163).
RECURSIVE WriteLoopFault(_, _, _, _, _, _, _, _, _)
WriteLoopFault(files, noread, nowrite, dirExists, filename, data, total_written, size, offset) ==
  IF size <= 0
  THEN [rc |-> total_written, files |-> files]
  ELSE LET block_num == BlockNum(offset)
           block_offset == BlockOffset(offset)
           to_write == ToRead(size, block_offset)
       IN IF get_block_path(filename, block_num) # 0 \/ ~dirExists
          THEN [rc |-> -1, files |-> files]
          ELSE IF block_num \in nowrite
          THEN [rc |-> -1, files |-> files]
          ELSE LET chunk == [i \in 1..to_write |-> data[total_written + i]]
                   seen == RemoveFiles(files, noread \cap {block_num})
               IN WriteLoopFault(
                    WriteBlock(seen, block_num, block_offset, chunk),
                    noread, nowrite, dirExists, filename, data,
                    total_written + to_write, size - to_write, offset + to_write)

block_write_fault(files, noread, nowrite, dirExists, bf, data, size, offset) ==
  IF bf = NULL \/ size < 0 \/ offset < 0
  THEN [rc |-> -1, files |-> files]
  ELSE WriteLoopFault(files, noread, nowrite, dirExists, bf, data, 0, size, offset)

\* The unlink loop when unlink fails on the present blocks in nounlink with
\* an errno other than ENOENT: the loop ends there (block.c:200-205).
UnlinkFromFault(files, nounlink, last_block) ==
  LET stuck == {b \in (DOMAIN files) \cap nounlink :
                  b >= last_block /\ b < SCAN_LIMIT}
      stop == IF stuck = {} THEN SCAN_LIMIT ELSE SetMin(stuck)
  IN RemoveFiles(files, {b \in DOMAIN files : b >= last_block /\ b < stop})

block_truncate_fault(files, nounlink, dirExists, bf, size) ==
  IF bf = NULL \/ size < 0
  THEN [rc |-> -1, files |-> files]
  ELSE LET last_block == ToInt((size + BLOCK_SIZE - 1) \div BLOCK_SIZE)
       IN IF last_block < SCAN_LIMIT /\ get_block_path(bf, last_block) # 0
          THEN [rc |-> -1, files |-> files]
          ELSE [rc |-> 0,
                files |-> RewriteLast(UnlinkFromFault(files, nounlink, last_block),
                                      dirExists, size)]

ReadFault(h, size, offset, noread) ==
  /\ last = Idle
  /\ handles[h] # NULL
  /\ LET n == FileOf(h)
         r == block_read_fault(fs[n], noread, n, Buffer(size), size, offset)
     IN last' = [Idle EXCEPT !.op = "read", !.h = h, !.name = handles[h],
                             !.offset = offset, !.size = size, !.rc = r.rc,
                             !.buf = r.buf, !.noread = noread]
  /\ pfs' = fs
  /\ UNCHANGED <<dirs, fs, handles, dirty>>
  /\ UNCHANGED <<inflight, useBlockStorage, plain, reals>>
  /\ UNCHANGED <<granted, loggingEnabled, logFile>>

WriteFault(h, data, offset, noread, nowrite) ==
  /\ last = Idle
  /\ handles[h] # NULL
  /\ LET n == FileOf(h)
         r == block_write_fault(fs[n], noread, nowrite, n \in dirs, n, data,
                                Len(data), offset)
     IN /\ fs' = [fs EXCEPT ![n] = r.files]
        /\ last' = [Idle EXCEPT !.op = "write", !.h = h, !.name = handles[h],
                                !.offset = offset, !.size = Len(data),
                                !.data = data, !.rc = r.rc,
                                !.noread = noread, !.nowrite = nowrite]
  /\ dirty' = dirty \cup {handles[h]}
  /\ pfs' = fs
  /\ UNCHANGED <<dirs, handles>>
  /\ UNCHANGED <<inflight, useBlockStorage, plain, reals>>
  /\ UNCHANGED <<granted, loggingEnabled, logFile>>

TruncateFault(h, size, nounlink) ==
  /\ last = Idle
  /\ handles[h] # NULL
  /\ LET n == FileOf(h)
         r == block_truncate_fault(fs[n], nounlink, n \in dirs, n, size)
     IN /\ fs' = [fs EXCEPT ![n] = r.files]
        /\ last' = [Idle EXCEPT !.op = "truncate", !.h = h, !.name = handles[h],
                                !.size = size, !.rc = r.rc,
                                !.nounlink = nounlink]
  /\ dirty' = dirty \cup {handles[h]}
  /\ pfs' = fs
  /\ UNCHANGED <<dirs, handles>>
  /\ UNCHANGED <<inflight, useBlockStorage, plain, reals>>
  /\ UNCHANGED <<granted, loggingEnabled, logFile>>

\* The blocks one call finds failing: none, or one of the first three.
FaultBlocks == 0..2
FaultSets == {{}} \cup {{b} : b \in FaultBlocks}
\* Writes of one byte and of a span over three blocks.
FaultLens == {1, BLOCK_SIZE + 2}
FaultOffsets == {0, BLOCK_SIZE - 1}

NextFault ==
  \/ Open(1, "a")
  \/ \E n \in FaultLens, offset \in FaultOffsets :
       \E data \in DataOfLen(n) : Write(1, data, offset)
  \/ \E n \in FaultLens, offset \in FaultOffsets, noread \in FaultSets :
       ReadFault(1, n, offset, noread)
  \/ \E n \in FaultLens, offset \in FaultOffsets,
        noread \in FaultSets, nowrite \in FaultSets :
       \E data \in DataOfLen(n) : WriteFault(1, data, offset, noread, nowrite)
  \/ \E size \in {0, 1, BLOCK_SIZE}, nounlink \in FaultSets :
       TruncateFault(1, size, nounlink)
  \/ Return

SpecFault == Init /\ [][NextFault]_vars

\* ------------------------------------------------- calls on a long name
\* One handle on a short name or on the long one; truncate below the scan
\* limit, where its loop checks get_block_path.
NextPath ==
  \/ \E n \in {"a", LongName} : Open(1, n)
  \/ Close(1)
  \/ \E size \in 1..2, offset \in MultiOffsets : Read(1, size, offset)
  \/ \E n \in 1..2, offset \in MultiOffsets :
       \E data \in DataOfLen(n) : Write(1, data, offset)
  \/ \E size \in {0, BLOCK_SIZE - 1} : Truncate(1, size)
  \/ FileSize(1)
  \/ Return

SpecPath == Init /\ [][NextPath]_vars

\* -------------------------------------------------- concurrent block_open
\* stat(block_dir, &st) of ensure_block_dir (block.c:31).
stat_block_dir(ds, filename) == IF filename \in ds THEN 0 ELSE -1

\* mkdir(block_dir, 0755) of ensure_block_dir (block.c:32): it fails with
\* EEXIST when the directory is there.
mkdir_block_dir(ds, filename) ==
  IF filename \in ds
  THEN [rc |-> -1, ds |-> ds]
  ELSE [rc |-> 0, ds |-> ds \cup {filename}]

\* Caller c enters block_open(n) and reaches ensure_block_dir.
OpenBegin(c, n) ==
  /\ inflight[c] = NoCall
  /\ inflight' = [inflight EXCEPT ![c] = [pc |-> "stat", op |-> "open",
                                          name |-> n, rc |-> 0]]
  /\ UNCHANGED <<dirs, fs, handles, dirty, last, pfs>>
  /\ UNCHANGED <<useBlockStorage, plain, reals>>
  /\ UNCHANGED <<granted, loggingEnabled, logFile>>

\* Caller c runs stat: the directory is there and block_open returns 0, or
\* c goes on to mkdir.
OpenStat(c) ==
  /\ inflight[c].pc = "stat"
  /\ IF stat_block_dir(dirs, inflight[c].name) = -1
     THEN /\ inflight' = [inflight EXCEPT ![c].pc = "mkdir"]
          /\ UNCHANGED handles
     ELSE /\ inflight' = [inflight EXCEPT ![c].pc = "done", ![c].rc = 0]
          /\ handles' = [handles EXCEPT ![c] = block_open(inflight[c].name)]
  /\ UNCHANGED <<dirs, fs, dirty, last, pfs>>
  /\ UNCHANGED <<useBlockStorage, plain, reals>>
  /\ UNCHANGED <<granted, loggingEnabled, logFile>>

\* Caller c runs mkdir: block_open returns 0, or -1 when mkdir fails and the
\* handle is freed.
OpenMkdir(c) ==
  /\ inflight[c].pc = "mkdir"
  /\ LET r == mkdir_block_dir(dirs, inflight[c].name)
     IN /\ dirs' = r.ds
        /\ inflight' = [inflight EXCEPT ![c].pc = "done", ![c].rc = r.rc]
        /\ handles' = [handles EXCEPT ![c] =
                         IF r.rc = 0 THEN block_open(inflight[c].name) ELSE NULL]
  /\ UNCHANGED <<fs, dirty, last, pfs>>
  /\ UNCHANGED <<useBlockStorage, plain, reals>>
  /\ UNCHANGED <<granted, loggingEnabled, logFile>>

\* Caller c takes the result of its call.
Finish(c) ==
  /\ inflight[c].pc = "done"
  /\ inflight' = [inflight EXCEPT ![c] = NoCall]
  /\ UNCHANGED <<dirs, fs, handles, dirty, last, pfs>>
  /\ UNCHANGED <<useBlockStorage, plain, reals>>
  /\ UNCHANGED <<granted, loggingEnabled, logFile>>

NextOpenRace ==
  \/ \E c \in Handles, n \in Names : OpenBegin(c, n)
  \/ \E c \in Handles : OpenStat(c)
  \/ \E c \in Handles : OpenMkdir(c)
  \/ \E c \in Handles : Finish(c)

SpecOpenRace == Init /\ [][NextOpenRace]_vars

\* --------------------------------------- concurrent block_write, truncate
\* Mutant: the bytes to store are the block read, without the new bytes.
BlockImage_NoCopy(files, block_num, block_offset, chunk) ==
  LoadBlock(files, block_num)

\* The bytes one iteration of block_write is about to store: block_data
\* after fread and memcpy (block.c:134-145), or buf for a full block.
BlockImage(files, block_num, block_offset, chunk) ==
  WriteBlock(files, block_num, block_offset, chunk)[block_num]

\* Mutant: the boundary block keeps the last bytes of the block read, not
\* the first.
TruncImage_Tail(files, size) ==
  LET block_data == LoadBlock(files, ToInt((size - 1) \div BLOCK_SIZE))
      keep == size % BLOCK_SIZE
  IN [i \in 1..keep |-> block_data[BLOCK_SIZE - keep + i]]

\* The bytes block_truncate is about to store in the boundary block: the
\* first size % BLOCK_SIZE bytes of block_data after fread (block.c:217-229).
TruncImage(files, size) ==
  LET block_data == LoadBlock(files, ToInt((size - 1) \div BLOCK_SIZE))
  IN [i \in 1..(size % BLOCK_SIZE) |-> block_data[i]]

\* A call in progress: its arguments (arg_offset, arg_size, data), the
\* locals of its loop, and the bytes read and not yet written back.
InCall(op, name, data, offset, size) ==
  [pc |-> op, op |-> op, name |-> name, data |-> data, arg_offset |-> offset,
   arg_size |-> size, offset |-> offset, size |-> size, total |-> 0,
   image |-> <<>>, rc |-> 0, nth |-> 1, joined |-> FALSE]

Alone(c) == \A d \in Handles \ {c} : inflight[d] = NoCall

\* The runs of calls that overlap one another are of two calls: caller c
\* begins a call when no other call is open, or when the first call of a
\* run is open and no other call has joined it.
CanEnter(c) ==
  \A d \in Handles \ {c} :
    IF inflight[d] = NoCall THEN TRUE
    ELSE inflight[d].nth = 1 /\ ~inflight[d].joined

\* The place in its run of the call that caller c begins now.
Nth(c) == IF Alone(c) THEN 1 ELSE 2

\* Caller c begins the call, and the calls that are open are joined by it.
Enter(c, call) ==
  [d \in Handles |->
     IF d = c THEN [call EXCEPT !.nth = Nth(c)]
     ELSE IF inflight[d] = NoCall THEN NoCall
     ELSE [inflight[d] EXCEPT !.joined = TRUE]]

\* Caller c enters block_write(bf, data, Len(data), offset).
WriteBegin(c, data, offset) ==
  /\ inflight[c] = NoCall
  /\ handles[c] # NULL
  /\ CanEnter(c)
  /\ inflight' = Enter(c, [InCall("write", FileOf(c), data, offset, Len(data))
                            EXCEPT !.pc = "w_load"])
  /\ pfs' = IF Alone(c) THEN fs ELSE pfs
  /\ UNCHANGED <<dirs, fs, handles, dirty, last>>
  /\ UNCHANGED <<useBlockStorage, plain, reals>>
  /\ UNCHANGED <<granted, loggingEnabled, logFile>>

\* The loop test, and the first half of an iteration: the path and, for a
\* partial block, the read of the existing block (block.c:121-145).
WriteLoad(c) ==
  /\ inflight[c].pc = "w_load"
  /\ LET f == inflight[c]
         block_num == BlockNum(f.offset)
         block_offset == BlockOffset(f.offset)
         to_write == ToRead(f.size, block_offset)
         chunk == [i \in 1..to_write |-> f.data[f.total + i]]
     IN inflight' = [inflight EXCEPT ![c] =
          IF f.size <= 0
          THEN [f EXCEPT !.pc = "done", !.rc = f.total]
          ELSE IF get_block_path(f.name, block_num) # 0
          THEN [f EXCEPT !.pc = "done", !.rc = -1]
          ELSE [f EXCEPT !.pc = "w_open",
                         !.image = BlockImage(fs[f.name], block_num,
                                              block_offset, chunk)]]
  /\ UNCHANGED <<dirs, fs, handles, dirty, last, pfs>>
  /\ UNCHANGED <<useBlockStorage, plain, reals>>
  /\ UNCHANGED <<granted, loggingEnabled, logFile>>

\* fopen(block_path, "wb"): the block file is created or cut to no bytes
\* (block.c:148-151).
WriteOpen(c) ==
  /\ inflight[c].pc = "w_open"
  /\ LET f == inflight[c]
     IN IF f.name \notin dirs
        THEN /\ inflight' = [inflight EXCEPT ![c].pc = "done", ![c].rc = -1]
             /\ UNCHANGED fs
        ELSE /\ fs' = [fs EXCEPT ![f.name] =
                        PutFile(fs[f.name], BlockNum(f.offset), <<>>)]
             /\ inflight' = [inflight EXCEPT ![c].pc = "w_store"]
  /\ dirty' = dirty \cup {inflight[c].name}
  /\ UNCHANGED <<dirs, handles, last, pfs>>
  /\ UNCHANGED <<useBlockStorage, plain, reals>>
  /\ UNCHANGED <<granted, loggingEnabled, logFile>>

\* fwrite and fclose on the stream opened: the bytes go to the start of the
\* file and what the file holds beyond them stays; a file unlinked since
\* the fopen takes them with it.
StoreOver(files, b, image) ==
  IF b \in DOMAIN files
  THEN PutFile(files, b,
               image \o SubSeq(files[b], Len(image) + 1, Len(files[b])))
  ELSE files

\* fwrite, fclose and the advance of the loop (block.c:153-176).
WriteStore(c) ==
  /\ inflight[c].pc = "w_store"
  /\ LET f == inflight[c]
         block_num == BlockNum(f.offset)
         to_write == ToRead(f.size, BlockOffset(f.offset))
     IN /\ fs' = [fs EXCEPT ![f.name] = StoreOver(fs[f.name], block_num, f.image)]
        /\ inflight' = [inflight EXCEPT ![c].pc = "w_load",
                                        ![c].offset = f.offset + to_write,
                                        ![c].size = f.size - to_write,
                                        ![c].total = f.total + to_write]
  /\ UNCHANGED <<dirs, handles, dirty, last, pfs>>
  /\ UNCHANGED <<useBlockStorage, plain, reals>>
  /\ UNCHANGED <<granted, loggingEnabled, logFile>>

\* Caller c enters block_truncate(bf, size).
TruncBegin(c, size) ==
  /\ inflight[c] = NoCall
  /\ handles[c] # NULL
  /\ CanEnter(c)
  /\ inflight' = Enter(c, [InCall("truncate", FileOf(c), <<>>, 0, size)
                            EXCEPT !.pc = "t_unlink"])
  /\ pfs' = IF Alone(c) THEN fs ELSE pfs
  /\ UNCHANGED <<dirs, fs, handles, dirty, last>>
  /\ UNCHANGED <<useBlockStorage, plain, reals>>
  /\ UNCHANGED <<granted, loggingEnabled, logFile>>

\* The unlink loop (block.c:187-206).
TruncUnlink(c) ==
  /\ inflight[c].pc = "t_unlink"
  /\ LET f == inflight[c]
         last_block == ToInt((f.size + BLOCK_SIZE - 1) \div BLOCK_SIZE)
     IN IF last_block < SCAN_LIMIT /\ get_block_path(f.name, last_block) # 0
        THEN /\ inflight' = [inflight EXCEPT ![c].pc = "done", ![c].rc = -1]
             /\ UNCHANGED fs
        ELSE /\ fs' = [fs EXCEPT ![f.name] = UnlinkFrom(fs[f.name], last_block)]
             /\ inflight' = [inflight EXCEPT ![c].pc =
                               IF f.size > 0 /\ (f.size % BLOCK_SIZE) # 0
                               THEN "t_load" ELSE "done"]
  /\ dirty' = dirty \cup {inflight[c].name}
  /\ UNCHANGED <<dirs, handles, last, pfs>>
  /\ UNCHANGED <<useBlockStorage, plain, reals>>
  /\ UNCHANGED <<granted, loggingEnabled, logFile>>

\* The read of the boundary block (block.c:210-224).
TruncLoad(c) ==
  /\ inflight[c].pc = "t_load"
  /\ inflight' = [inflight EXCEPT ![c].pc = "t_open",
                    ![c].image = TruncImage(fs[inflight[c].name], inflight[c].size)]
  /\ UNCHANGED <<dirs, fs, handles, dirty, last, pfs>>
  /\ UNCHANGED <<useBlockStorage, plain, reals>>
  /\ UNCHANGED <<granted, loggingEnabled, logFile>>

\* fopen(block_path, "wb") of the boundary block (block.c:227-228); without
\* the stream nothing is written and block_truncate returns 0.
TruncOpen(c) ==
  /\ inflight[c].pc = "t_open"
  /\ LET f == inflight[c]
         last_block_num == ToInt((f.size - 1) \div BLOCK_SIZE)
     IN IF f.name \notin dirs
        THEN /\ inflight' = [inflight EXCEPT ![c].pc = "done"]
             /\ UNCHANGED fs
        ELSE /\ fs' = [fs EXCEPT ![f.name] =
                        PutFile(fs[f.name], last_block_num, <<>>)]
             /\ inflight' = [inflight EXCEPT ![c].pc = "t_store"]
  /\ UNCHANGED <<dirs, handles, dirty, last, pfs>>
  /\ UNCHANGED <<useBlockStorage, plain, reals>>
  /\ UNCHANGED <<granted, loggingEnabled, logFile>>

\* fwrite of the first last_block_size bytes and fclose (block.c:229-234).
TruncStore(c) ==
  /\ inflight[c].pc = "t_store"
  /\ LET f == inflight[c]
         last_block_num == ToInt((f.size - 1) \div BLOCK_SIZE)
     IN fs' = [fs EXCEPT ![f.name] =
                 StoreOver(fs[f.name], last_block_num, f.image)]
  /\ inflight' = [inflight EXCEPT ![c].pc = "done"]
  /\ UNCHANGED <<dirs, handles, dirty, last, pfs>>
  /\ UNCHANGED <<useBlockStorage, plain, reals>>
  /\ UNCHANGED <<granted, loggingEnabled, logFile>>

\* Two callers on one virtual file, each inside a write of one byte at one
\* of the first three positions or a truncate to one of the first sizes.
\* A step is one system call on a block file, the unlink loop taken whole:
\* a write of one byte meets the unlink of its one block before or after.
RaceOffsets == 0..2
RaceSizes == 0..2

\* No call is in progress: the file is opened, and block_open returns,
\* between the runs of calls.
Quiet == \A c \in Handles : inflight[c] = NoCall

NextRace ==
  \/ \E h \in Handles : Quiet /\ Open(h, "a")
  \/ Quiet /\ Return
  \/ \E c \in Handles, offset \in RaceOffsets :
       WriteBegin(c, <<1>>, offset)
  \/ \E c \in Handles : WriteLoad(c)
  \/ \E c \in Handles : WriteOpen(c)
  \/ \E c \in Handles : WriteStore(c)
  \/ \E c \in Handles, size \in RaceSizes : TruncBegin(c, size)
  \/ \E c \in Handles : TruncUnlink(c)
  \/ \E c \in Handles : TruncLoad(c)
  \/ \E c \in Handles : TruncOpen(c)
  \/ \E c \in Handles : TruncStore(c)
  \/ \E c \in Handles : Finish(c)

SpecRace == Init /\ [][NextRace]_vars

\* ------------------------------------------------------------ logging VFS
\* The names whose block-directory path stat finds: a directory, or a
\* regular file at that path (block.c:31 tests only stat's result).
StatHits(ds, files) == ds \cup {n \in Names : get_block_dir(n) \in files}

\* The directories after block_open(filename) run by the VFS.
OpenBlockDir(ds, files, filename) ==
  ds \cup (ensure_block_dir(StatHits(ds, files), filename) \ StatHits(ds, files))

\* The backend a call on VFS file h goes to: "useBlockStorage && p->pBlock",
\* else p->pReal, which is a null pointer for a file opened in block mode.
Backend(h) ==
  IF useBlockStorage /\ handles[h] # NULL THEN "block"
  ELSE IF reals[h] # NULL THEN "real" ELSE "null"

IsOpen(h) == handles[h] # NULL \/ reals[h] # NULL

\* The process has dereferenced a null p->pReal.
Crash == [Idle EXCEPT !.op = "crash"]

\* sqlite3_loggingvfs_set_block_storage
set_block_storage(enable) ==
  /\ last = Idle
  /\ useBlockStorage' = enable
  /\ last' = [Idle EXCEPT !.op = "config"]
  /\ pfs' = fs
  /\ UNCHANGED <<dirs, fs, handles, dirty, inflight, plain, reals>>
  /\ UNCHANGED <<granted, loggingEnabled, logFile>>

\* loggingOpen with SQLITE_OPEN_CREATE.  The default VFS creates a regular
\* file at zName, and fails when zName is a directory.
loggingOpen(h, zName) ==
  /\ last = Idle
  /\ ~IsOpen(h)
  /\ IF useBlockStorage
     THEN /\ zName \in Names
          /\ dirs' = OpenBlockDir(dirs, plain, zName)
          /\ handles' = [handles EXCEPT ![h] = block_open(zName)]
          /\ last' = [Idle EXCEPT !.op = "xOpen", !.h = h, !.name = zName,
                                  !.sqlite_rc = SQLITE_OK]
          /\ UNCHANGED <<plain, reals>>
     ELSE IF \E n \in dirs : zName = get_block_dir(n)
     THEN /\ last' = [Idle EXCEPT !.op = "xOpen", !.h = h, !.name = zName,
                                  !.sqlite_rc = SQLITE_CANTOPEN]
          /\ UNCHANGED <<dirs, handles, plain, reals>>
     ELSE /\ plain' = plain \cup {zName}
          /\ reals' = [reals EXCEPT ![h] = zName]
          /\ last' = [Idle EXCEPT !.op = "xOpen", !.h = h, !.name = zName,
                                  !.sqlite_rc = SQLITE_OK]
          /\ UNCHANGED <<dirs, handles>>
  /\ pfs' = fs
  /\ UNCHANGED <<fs, dirty, inflight, useBlockStorage>>
  /\ UNCHANGED <<granted, loggingEnabled, logFile>>

\* logVfsOperation writes when the log stream is open and logging is on.
LogActive == logFile /\ loggingEnabled

\* The process has read p->zName after sqlite3_free(p->zName).
Undefined == [Idle EXCEPT !.op = "undefined"]

\* The ways logVfsOperation(operation, filename, ...) can end: it returns;
\* when it writes and filename points to freed memory, the read of the
\* name is undefined.
logVfsOperation(active, freed) ==
  IF active /\ freed THEN {"returns", "undefined"} ELSE {"returns"}

\* loggingClose with logging active or not.  p->zName is freed before the
\* last logVfsOperation, which is passed it.
loggingCloseWith(h, active) ==
  /\ last = Idle
  /\ IsOpen(h)
  /\ fs' = IF Backend(h) = "block" THEN block_close(fs, handles[h]) ELSE fs
  /\ handles' = [handles EXCEPT ![h] = NULL]
  /\ reals' = [reals EXCEPT ![h] = NULL]
  /\ \E end \in logVfsOperation(active, TRUE) :
       last' = IF end = "undefined" THEN Undefined
               ELSE [Idle EXCEPT !.op = "xClose", !.h = h,
                                 !.sqlite_rc = SQLITE_OK]
  /\ pfs' = fs
  /\ UNCHANGED <<dirs, dirty, inflight, useBlockStorage, plain>>
  /\ UNCHANGED <<granted, loggingEnabled, logFile>>

loggingClose(h) == loggingCloseWith(h, LogActive)

loggingRead(h, iAmt, iOfst) ==
  /\ last = Idle
  /\ IsOpen(h)
  /\ IF Backend(h) = "block"
     THEN LET n == FileOf(h)
              r == block_read(fs[n], n, Buffer(iAmt), iAmt, iOfst)
          IN last' = [Idle EXCEPT !.op = "xRead", !.h = h, !.name = n,
                                  !.offset = iOfst, !.size = iAmt, !.buf = r.buf,
                                  !.sqlite_rc = IF r.rc < 0 THEN SQLITE_IOERR_READ
                                         ELSE SQLITE_OK]
     ELSE IF Backend(h) = "real"
     THEN last' = [Idle EXCEPT !.op = "xRead", !.h = h, !.name = reals[h],
                               !.sqlite_rc = SQLITE_OK]
     ELSE last' = Crash
  /\ pfs' = fs
  /\ UNCHANGED <<dirs, fs, handles, dirty, inflight, useBlockStorage, plain, reals>>
  /\ UNCHANGED <<granted, loggingEnabled, logFile>>

loggingWrite(h, zBuf, iOfst) ==
  /\ last = Idle
  /\ IsOpen(h)
  /\ IF Backend(h) = "block"
     THEN LET n == FileOf(h)
              r == block_write(fs[n], n \in dirs, n, zBuf, Len(zBuf), iOfst)
          IN /\ fs' = [fs EXCEPT ![n] = r.files]
             /\ dirty' = dirty \cup {n}
             /\ last' = [Idle EXCEPT !.op = "xWrite", !.h = h, !.name = n,
                                     !.offset = iOfst, !.size = Len(zBuf),
                                     !.data = zBuf,
                                     !.sqlite_rc = IF r.rc = Len(zBuf) THEN SQLITE_OK
                                            ELSE SQLITE_IOERR_WRITE]
     ELSE IF Backend(h) = "real"
     THEN /\ last' = [Idle EXCEPT !.op = "xWrite", !.h = h, !.name = reals[h],
                                  !.sqlite_rc = SQLITE_OK]
          /\ UNCHANGED <<fs, dirty>>
     ELSE /\ last' = Crash
          /\ UNCHANGED <<fs, dirty>>
  /\ pfs' = fs
  /\ UNCHANGED <<dirs, handles, inflight, useBlockStorage, plain, reals>>
  /\ UNCHANGED <<granted, loggingEnabled, logFile>>

loggingTruncate(h, size) ==
  /\ last = Idle
  /\ IsOpen(h)
  /\ IF Backend(h) = "block"
     THEN LET n == FileOf(h)
              r == block_truncate(fs[n], n \in dirs, n, size)
          IN /\ fs' = [fs EXCEPT ![n] = r.files]
             /\ dirty' = dirty \cup {n}
             /\ last' = [Idle EXCEPT !.op = "xTruncate", !.h = h, !.name = n,
                                     !.size = size,
                                     !.sqlite_rc = IF r.rc # 0 THEN SQLITE_IOERR_TRUNCATE
                                            ELSE SQLITE_OK]
     ELSE IF Backend(h) = "real"
     THEN /\ last' = [Idle EXCEPT !.op = "xTruncate", !.h = h,
                                  !.name = reals[h], !.sqlite_rc = SQLITE_OK]
          /\ UNCHANGED <<fs, dirty>>
     ELSE /\ last' = Crash
          /\ UNCHANGED <<fs, dirty>>
  /\ pfs' = fs
  /\ UNCHANGED <<dirs, handles, inflight, useBlockStorage, plain, reals>>
  /\ UNCHANGED <<granted, loggingEnabled, logFile>>

\* loggingFileSize: *pSize goes to last.size.
loggingFileSize(h) ==
  /\ last = Idle
  /\ IsOpen(h)
  /\ IF Backend(h) = "block"
     THEN LET n == FileOf(h)
              size == block_file_size(fs[n], n)
          IN last' = [Idle EXCEPT !.op = "xFileSize", !.h = h, !.name = n,
                                  !.size = IF size >= 0 THEN size ELSE 0,
                                  !.sqlite_rc = IF size >= 0 THEN SQLITE_OK
                                         ELSE SQLITE_IOERR_FSTAT]
     ELSE IF Backend(h) = "real"
     THEN last' = [Idle EXCEPT !.op = "xFileSize", !.h = h, !.name = reals[h],
                               !.sqlite_rc = SQLITE_OK]
     ELSE last' = Crash
  /\ pfs' = fs
  /\ UNCHANGED <<dirs, fs, handles, dirty, inflight, useBlockStorage, plain, reals>>
  /\ UNCHANGED <<granted, loggingEnabled, logFile>>

\* Mutant: the block files are unlinked and the directory is left.
remove_directory_recursive_KeepDir(ds, allfiles, filename) ==
  IF filename \notin ds
  THEN [rc |-> 0, ds |-> ds, files |-> allfiles]
  ELSE [rc |-> 0, ds |-> ds, files |-> [allfiles EXCEPT ![filename] = <<>>]]

\* remove_directory_recursive on the block directory of filename: 0 when
\* opendir fails; else every entry is unlinked and the directory removed.
remove_directory_recursive(ds, allfiles, filename) ==
  IF filename \notin ds
  THEN [rc |-> 0, ds |-> ds, files |-> allfiles]
  ELSE [rc |-> 0, ds |-> ds \ {filename},
        files |-> [allfiles EXCEPT ![filename] = <<>>]]

\* xDelete of the default VFS: unlink(zPath).
DefaultDelete(ds, files, zPath) ==
  IF zPath \in files THEN [rc |-> SQLITE_OK, files |-> files \ {zPath}]
  ELSE IF \E n \in ds : zPath = get_block_dir(n)
  THEN [rc |-> SQLITE_IOERR_DELETE, files |-> files]
  ELSE [rc |-> SQLITE_IOERR_DELETE_NOENT, files |-> files]

loggingDelete(zPath) ==
  /\ last = Idle
  /\ IF useBlockStorage
     THEN LET r == IF zPath \in Names
                   THEN remove_directory_recursive(dirs, fs, zPath)
                   ELSE [rc |-> 0, ds |-> dirs, files |-> fs]
          IN /\ dirs' = r.ds
             /\ fs' = r.files
             /\ plain' = DefaultDelete(r.ds, plain, zPath).files
             /\ last' = [Idle EXCEPT !.op = "xDelete", !.name = zPath,
                                     !.sqlite_rc = IF r.rc = 0 THEN SQLITE_OK
                                            ELSE SQLITE_IOERR_DELETE]
     ELSE /\ plain' = DefaultDelete(dirs, plain, zPath).files
          /\ last' = [Idle EXCEPT !.op = "xDelete", !.name = zPath,
                                  !.sqlite_rc = DefaultDelete(dirs, plain, zPath).rc]
          /\ UNCHANGED <<dirs, fs>>
  /\ pfs' = fs
  /\ UNCHANGED <<handles, dirty, inflight, useBlockStorage, reals>>
  /\ UNCHANGED <<granted, loggingEnabled, logFile>>

\* xAccess(SQLITE_ACCESS_EXISTS) of the default VFS, the values *pResOut can
\* take: 1 for a directory, 0 for no entry, and for a regular file 1 or,
\* where the file is empty, 0.
DefaultAccess(ds, files, zPath) ==
  IF \E n \in ds : zPath = get_block_dir(n) THEN {1}
  ELSE IF zPath \in files THEN {0, 1}
  ELSE {0}

\* loggingAccess with SQLITE_ACCESS_EXISTS: *pResOut goes to last.rc.
loggingAccess(zPath) ==
  /\ last = Idle
  /\ \E res \in DefaultAccess(dirs, plain, zPath) :
       last' = [Idle EXCEPT !.op = "xAccess", !.name = zPath, !.rc = res,
                            !.sqlite_rc = SQLITE_OK]
  /\ pfs' = fs
  /\ UNCHANGED <<dirs, fs, handles, dirty, inflight, useBlockStorage, plain, reals>>
  /\ UNCHANGED <<granted, loggingEnabled, logFile>>

\* The caller takes the result; a crashed process makes no further call.
VfsReturn ==
  /\ last # Idle
  /\ last # Crash
  /\ last # Undefined
  /\ last' = Idle
  /\ pfs' = fs
  /\ UNCHANGED <<dirs, fs, handles, dirty, inflight, useBlockStorage, plain, reals>>
  /\ UNCHANGED <<granted, loggingEnabled, logFile>>

\* The paths the VFS is called with: a database name and the path of its
\* block directory.
VfsPaths == {"a", get_block_dir("a")}

NextVfs ==
  \/ \E enable \in BOOLEAN : set_block_storage(enable)
  \/ \E h \in Handles, zName \in VfsPaths : loggingOpen(h, zName)
  \/ \E h \in Handles : loggingClose(h)
  \/ \E h \in Handles, offset \in MultiOffsets : loggingRead(h, 2, offset)
  \/ \E h \in Handles, offset \in MultiOffsets :
       \E data \in DataOfLen(2) : loggingWrite(h, data, offset)
  \/ \E h \in Handles : loggingWrite(h, <<1>>, FarBlock)
  \/ \E h \in Handles, size \in {0, BLOCK_SIZE - 1} : loggingTruncate(h, size)
  \/ \E h \in Handles : loggingFileSize(h)
  \/ \E zPath \in VfsPaths : loggingDelete(zPath)
  \/ \E zPath \in VfsPaths : loggingAccess(zPath)
  \/ VfsReturn

SpecVfs == Init /\ [][NextVfs]_vars

\* ------------------------------------------------------------------ locks
\* The other VFS files that are open on the file of h through the backend
\* given.
Peers(h, backend) ==
  IF backend = "block"
  THEN {o \in Handles \ {h} : handles[o] = handles[h]}
  ELSE {o \in Handles \ {h} : reals[o] = reals[h]}

\* A lock of level eLock cannot be held while the peers hold levels.
Conflict(levels, peers, eLock) ==
  IF eLock = SQLITE_LOCK_SHARED
  THEN \E o \in peers : levels[o] >= SQLITE_LOCK_PENDING
  ELSE IF eLock = SQLITE_LOCK_RESERVED
  THEN \E o \in peers : levels[o] >= SQLITE_LOCK_RESERVED
  ELSE \E o \in peers : levels[o] >= SQLITE_LOCK_SHARED

\* Mutant: the block branch refuses a lock that conflicts with one granted
\* through another handle.
BlockLock_Exclusive(levels, h, eLock) ==
  IF Conflict(levels, Peers(h, "block"), eLock) THEN SQLITE_BUSY ELSE SQLITE_OK

\* The block branch of loggingLock: rc = SQLITE_OK.
BlockLock(levels, h, eLock) == SQLITE_OK

\* xLock of the default VFS.
DefaultLock(levels, h, eLock) ==
  IF Conflict(levels, Peers(h, "real"), eLock) THEN SQLITE_BUSY ELSE SQLITE_OK

\* loggingLock: eLock goes to last.size.
loggingLock(h, eLock) ==
  /\ last = Idle
  /\ IsOpen(h)
  /\ IF Backend(h) = "null"
     THEN /\ last' = Crash
          /\ UNCHANGED granted
     ELSE LET rc == IF Backend(h) = "block" THEN BlockLock(granted, h, eLock)
                    ELSE DefaultLock(granted, h, eLock)
          IN /\ granted' = IF rc = SQLITE_OK
                           THEN [granted EXCEPT ![h] = Max(@, eLock)]
                           ELSE granted
             /\ last' = [Idle EXCEPT !.op = "xLock", !.h = h, !.size = eLock,
                                     !.sqlite_rc = rc]
  /\ pfs' = fs
  /\ UNCHANGED <<dirs, fs, handles, dirty, inflight, useBlockStorage, plain, reals>>
  /\ UNCHANGED <<loggingEnabled, logFile>>

\* loggingUnlock: rc = SQLITE_OK in the block branch, and from the default
\* VFS, which lowers the lock.
loggingUnlock(h, eLock) ==
  /\ last = Idle
  /\ IsOpen(h)
  /\ IF Backend(h) = "null"
     THEN /\ last' = Crash
          /\ UNCHANGED granted
     ELSE /\ granted' = [granted EXCEPT ![h] = Min(@, eLock)]
          /\ last' = [Idle EXCEPT !.op = "xUnlock", !.h = h, !.size = eLock,
                                  !.sqlite_rc = SQLITE_OK]
  /\ pfs' = fs
  /\ UNCHANGED <<dirs, fs, handles, dirty, inflight, useBlockStorage, plain, reals>>
  /\ UNCHANGED <<loggingEnabled, logFile>>

\* loggingCheckReservedLock: *pResOut goes to last.rc; the default VFS
\* reports a RESERVED or higher lock on the file.
loggingCheckReservedLock(h) ==
  /\ last = Idle
  /\ IsOpen(h)
  /\ last' = IF Backend(h) = "null" THEN Crash
             ELSE [Idle EXCEPT !.op = "xCheckReservedLock", !.h = h,
                     !.rc = IF Backend(h) = "block" THEN 0
                            ELSE IF \E o \in Peers(h, "real") \cup {h} :
                                      granted[o] >= SQLITE_LOCK_RESERVED
                            THEN 1 ELSE 0,
                     !.sqlite_rc = SQLITE_OK]
  /\ pfs' = fs
  /\ UNCHANGED <<dirs, fs, handles, dirty, inflight, useBlockStorage, plain, reals>>
  /\ UNCHANGED <<granted, loggingEnabled, logFile>>

\* The levels SQLite passes to xLock and to xUnlock.
LockLevels == {SQLITE_LOCK_SHARED, SQLITE_LOCK_RESERVED, SQLITE_LOCK_EXCLUSIVE}
UnlockLevels == {SQLITE_LOCK_NONE, SQLITE_LOCK_SHARED}

NextLock ==
  \/ \E enable \in BOOLEAN : set_block_storage(enable)
  \/ \E h \in Handles : loggingOpen(h, "a")
  \/ \E h \in Handles, eLock \in LockLevels : loggingLock(h, eLock)
  \/ \E h \in Handles, eLock \in UnlockLevels : loggingUnlock(h, eLock)
  \/ \E h \in Handles : loggingCheckReservedLock(h)
  \/ VfsReturn

SpecLock == Init /\ [][NextLock]_vars

\* ---------------------------------------------------------------- logging
\* sqlite3_loggingvfs_set_logging
set_logging(enable) ==
  /\ last = Idle
  /\ loggingEnabled' = enable
  /\ last' = [Idle EXCEPT !.op = "config"]
  /\ pfs' = fs
  /\ UNCHANGED <<dirs, fs, handles, dirty, inflight, useBlockStorage, plain, reals>>
  /\ UNCHANGED <<granted, logFile>>

\* sqlite3_loggingvfs_init(logFilePath): with logging on, the log stream is
\* opened (stdout for a null path), and a path that cannot be opened makes
\* the call fail.
sqlite3_loggingvfs_init(openable) ==
  /\ last = Idle
  /\ IF loggingEnabled /\ ~openable
     THEN /\ last' = [Idle EXCEPT !.op = "init", !.sqlite_rc = SQLITE_ERROR]
          /\ UNCHANGED logFile
     ELSE /\ last' = [Idle EXCEPT !.op = "init", !.sqlite_rc = SQLITE_OK]
          /\ logFile' = (logFile \/ loggingEnabled)
  /\ pfs' = fs
  /\ UNCHANGED <<dirs, fs, handles, dirty, inflight, useBlockStorage, plain, reals>>
  /\ UNCHANGED <<granted, loggingEnabled>>

NextLog ==
  \/ \E enable \in BOOLEAN : set_logging(enable)
  \/ \E openable \in BOOLEAN : sqlite3_loggingvfs_init(openable)
  \/ \E enable \in BOOLEAN : set_block_storage(enable)
  \/ \E h \in Handles : loggingOpen(h, "a")
  \/ \E h \in Handles : loggingClose(h)
  \/ \E h \in Handles, offset \in MultiOffsets : loggingRead(h, 2, offset)
  \/ \E h \in Handles, offset \in MultiOffsets :
       \E data \in DataOfLen(2) : loggingWrite(h, data, offset)
  \/ VfsReturn

SpecLog == Init /\ [][NextLog]_vars

\* ------------------------------------------------------------- properties
\* What the claims below read back: the positions of the region and one
\* block beyond it, the block at SCAN_LIMIT, and the block whose index
\* converts to int 0.
Probe ==
  (0..(RegionEnd + BLOCK_SIZE))
    \cup ((SCAN_LIMIT * BLOCK_SIZE)..(SCAN_LIMIT * BLOCK_SIZE + BLOCK_SIZE - 1))
    \cup (WrapZero..(WrapZero + BLOCK_SIZE - 1))

\* block_read of size bytes at offset into a fresh buffer.
ReadAt(files, name, size, offset) ==
  block_read(files, name, Buffer(size), size, offset)

ByteAt(files, name, p) == ReadAt(files, name, 1, p).buf[1]

\* block_read and block_file_size through handle h.
ReadVia(h, size, offset) == ReadAt(fs[FileOf(h)], FileOf(h), size, offset)
SizeVia(h) == block_file_size(fs[FileOf(h)], FileOf(h))

WriteOk == last.op = "write" /\ last.rc >= 0
TruncateOk == last.op = "truncate" /\ last.rc = 0
RoundUp(n) == ((n + BLOCK_SIZE - 1) \div BLOCK_SIZE) * BLOCK_SIZE
HasData(files) == \E b \in DOMAIN files : \E i \in 1..Len(files[b]) : files[b][i] # 0

\* C1: a successful block_write of size bytes at offset, followed at once by
\* block_read of the same size and offset, returns size and the bytes written.
C1_RoundTrip ==
  WriteOk =>
    ReadAt(fs[last.name], last.name, last.size, last.offset)
      = [rc |-> last.size, buf |-> last.data]

\* A write that starts mid-block and crosses two block boundaries, over
\* bytes that held something else, has been read back.
C1_Witness ==
  /\ WriteOk
  /\ last.offset % BLOCK_SIZE # 0
  /\ (last.offset + last.size - 1) \div BLOCK_SIZE >= last.offset \div BLOCK_SIZE + 2
  /\ ReadAt(pfs[last.name], last.name, last.size, last.offset).buf # last.data
  /\ HasData(pfs[last.name])
  /\ ReadAt(fs[last.name], last.name, last.size, last.offset).buf = last.data

\* C2: on a virtual file never written or truncated, block_read fills the
\* buffer with zero bytes and block_file_size returns 0.
C2_FreshZeroFill ==
  /\ (last.op = "read" /\ last.name \notin dirty)
       => (last.rc = last.size /\ last.buf = Zeros(last.size))
  /\ (last.op = "size" /\ last.name \notin dirty) => last.rc = 0

\* A read across a block boundary of a file never written has returned.
C2_Witness ==
  /\ last.op = "read"
  /\ last.name \notin dirty
  /\ last.size > BLOCK_SIZE
  /\ last.buf = Zeros(last.size)

\* C3: block_read that does not fail returns exactly size, and every one of
\* the size bytes of the buffer is assigned, data or zero.
C3_NoShortRead ==
  (last.op = "read" /\ last.rc >= 0) =>
    /\ last.rc = last.size
    /\ Len(last.buf) = last.size
    /\ \A i \in 1..last.size : last.buf[i] \in Bytes

\* A read that starts inside a shortened block, below the logical size, and
\* ends beyond it has returned its full size with data and zeros.
C3_Witness ==
  /\ last.op = "read"
  /\ last.rc = last.size
  /\ last.offset < block_file_size(fs[last.name], last.name)
  /\ last.offset + last.size > block_file_size(fs[last.name], last.name)
  /\ block_file_size(fs[last.name], last.name) % BLOCK_SIZE # 0
  /\ last.buf[1] = 1
  /\ last.buf[last.size] = 0

\* C4: a successful block_write of size bytes at offset leaves the byte read
\* back at every position outside [offset, offset+size) unchanged.
C4_NeighborIsolation ==
  WriteOk =>
    \A p \in Probe :
      (p < last.offset \/ p >= last.offset + last.size)
        => ByteAt(fs[last.name], last.name, p) = ByteAt(pfs[last.name], last.name, p)

\* C5: after block_truncate(newSize) returns success, every byte position
\* >= newSize reads as zero, whatever was written before.
C5_TruncateZeroFills ==
  TruncateOk =>
    \A p \in Probe : p >= last.size => ByteAt(fs[last.name], last.name, p) = 0

\* C6: after block_truncate(newSize) returns success, block_file_size
\* returns exactly newSize.
C6_TruncateSetsSize ==
  TruncateOk => block_file_size(fs[last.name], last.name) = last.size

\* C7: after a successful truncate to a newSize smaller than the logical
\* size, block_file_size is at most newSize rounded up to a multiple of
\* BLOCK_SIZE.
C7_TruncateSizeBound ==
  (TruncateOk /\ last.size < block_file_size(pfs[last.name], last.name))
    => block_file_size(fs[last.name], last.name) <= RoundUp(last.size)

\* Data over more than two blocks has been truncated to a size inside its
\* second block.
C7_Witness ==
  /\ TruncateOk
  /\ block_file_size(pfs[last.name], last.name) > 2 * BLOCK_SIZE
  /\ last.size > BLOCK_SIZE
  /\ last.size < 2 * BLOCK_SIZE
  /\ block_file_size(fs[last.name], last.name) <= RoundUp(last.size)

\* C8: block_close and block_open on a name whose directory exists succeed
\* and change no block file: every byte and the size of every virtual file
\* read back as before, so data written through a closed handle is there
\* for the next one.
C8_Durability ==
  (last.op \in {"open", "close"}) =>
    /\ last.rc = 0
    /\ fs = pfs
    /\ \A n \in Names :
         /\ block_file_size(fs[n], n) = block_file_size(pfs[n], n)
         /\ \A p \in Probe : ByteAt(fs[n], n, p) = ByteAt(pfs[n], n, p)

\* A handle has been opened on a name that holds data written through an
\* earlier handle, closed since, and reads it.
C8_Witness ==
  /\ last.op = "open"
  /\ last.rc = 0
  /\ last.name \in dirty
  /\ \A h \in Handles : h # last.h => handles[h] = NULL
  /\ HasData(fs[last.name])
  /\ fs = pfs
  /\ \E p \in Offsets : ByteAt(fs[last.name], FileOf(last.h), p) = 1

\* C9: with two handles open on the same name, a write or truncate that has
\* returned through one is what every read and size query through the
\* other observes.
C9_CrossHandle ==
  \A h2 \in Handles :
    (last.op \in {"write", "truncate"} /\ last.rc >= 0 /\ handles[h2] = last.name) =>
      /\ last.op = "write" =>
           ReadVia(h2, last.size, last.offset) = [rc |-> last.size, buf |-> last.data]
      /\ SizeVia(h2) = block_file_size(fs[last.name], last.name)
      /\ \A p \in 0..(2 * BLOCK_SIZE) :
           ReadVia(h2, 1, p) = ReadAt(fs[last.name], last.name, 1, p)
      /\ last.op = "truncate" =>
           \A p \in 0..(2 * BLOCK_SIZE) : p >= last.size => ReadVia(h2, 1, p).buf = <<0>>

\* Handle 1 has written non-zero bytes while handle 2 is open on the same
\* name, and handle 2 reads them.
C9_Witness ==
  /\ WriteOk
  /\ last.h = 1
  /\ handles[1] = handles[2]
  /\ handles[2] # NULL
  /\ last.size = 2
  /\ last.data[1] = 1
  /\ ReadVia(2, last.size, last.offset).buf = last.data

\* The block indices of the sub-spans of [offset, offset+size).
Touched(offset, size) == {BlockNum(offset + k) : k \in 0..(size - 1)}

\* C10: after a successful block_write every block file the write touched
\* has length exactly BLOCK_SIZE, also one that truncate had shortened; a
\* write of 1..BLOCK_SIZE bytes at offset 0 of a file without blocks makes
\* block_file_size report BLOCK_SIZE.
C10_FullLengthBlocks ==
  WriteOk =>
    /\ \A b \in Touched(last.offset, last.size) :
         /\ b \in DOMAIN fs[last.name]
         /\ Len(fs[last.name][b]) = BLOCK_SIZE
    /\ (DOMAIN pfs[last.name] = {} /\ last.offset = 0 /\ last.size \in 1..BLOCK_SIZE)
         => block_file_size(fs[last.name], last.name) = BLOCK_SIZE

\* A partial write has landed in a block that truncate had left short.
C10_Witness ==
  /\ WriteOk
  /\ last.size > 0
  /\ last.size < BLOCK_SIZE
  /\ \E b \in Touched(last.offset, last.size) :
       /\ b \in DOMAIN pfs[last.name]
       /\ Len(pfs[last.name][b]) < BLOCK_SIZE
       /\ Len(pfs[last.name][b]) > 0
       /\ Len(fs[last.name][b]) = BLOCK_SIZE

\* C11: after a successful block_write of n > 0 bytes at offset,
\* block_file_size returns at least offset + n.
C11_SizeCoversWrite ==
  (WriteOk /\ last.size > 0)
    => block_file_size(fs[last.name], last.name) >= last.offset + last.size

\* The logical size of the spec's section 3: over all existing block files,
\* the largest index*BLOCK_SIZE + min(length, BLOCK_SIZE); 0 without files.
LogicalSize(files) ==
  SetMax({b * BLOCK_SIZE + Min(Len(files[b]), BLOCK_SIZE) : b \in DOMAIN files})

\* C12: block_file_size returns the logical size taken over all existing
\* block files, with no upper bound on the block index.
C12_SizeDefinition ==
  last.op = "size" => last.rc = LogicalSize(fs[last.name])

\* ceil(size / BLOCK_SIZE), not converted to int.
CeilBlocks(size) == (size + BLOCK_SIZE - 1) \div BLOCK_SIZE

\* C14: after block_truncate(newSize) returns success no block file with
\* index >= ceil(newSize / BLOCK_SIZE) exists; for newSize = 0 none exists.
C14_TruncateRemovesHigher ==
  TruncateOk =>
    /\ \A b \in DOMAIN fs[last.name] : b < CeilBlocks(last.size)
    /\ last.size = 0 => DOMAIN fs[last.name] = {}

\* C15: after block_truncate(newSize) returns success with newSize not
\* block-aligned, the block file of index (newSize-1)/BLOCK_SIZE exists, has
\* newSize % BLOCK_SIZE bytes, and they are the first bytes it held before
\* (zeros where it was absent or shorter).
C15_BoundaryRewrite ==
  (TruncateOk /\ last.size % BLOCK_SIZE # 0) =>
    LET idx == (last.size - 1) \div BLOCK_SIZE
        keep == last.size % BLOCK_SIZE
    IN /\ idx \in DOMAIN fs[last.name]
       /\ Len(fs[last.name][idx]) = keep
       /\ \A i \in 1..keep :
            fs[last.name][idx][i] = LoadBlock(pfs[last.name], idx)[i]

\* C13: block_read and block_write with a negative size, a negative offset
\* or a null handle, and block_truncate with a negative size or a null
\* handle, return an error and leave every block file and, for read, the
\* caller's buffer unchanged.
C13_InvalidArgsRejected ==
  [][(last = Idle /\ last'.op \in {"read", "write", "truncate"}
        /\ (\/ last'.h = 0
            \/ last'.size < 0
            \/ (last'.op # "truncate" /\ last'.offset < 0)))
       => /\ last'.rc < 0
          /\ fs' = fs
          /\ dirs' = dirs
          /\ last'.op = "read" => last'.buf = ArgBuffer]_vars

\* block_truncate with a negative size has returned an error on a file
\* that holds data, and the data is still there.
C13_Witness ==
  /\ last.op = "truncate"
  /\ last.size < 0
  /\ last.h # 0
  /\ last.rc = -1
  /\ HasData(fs[last.name])
  /\ fs = pfs

\* C16: block_truncate goes on after deleting a block file that does not
\* exist, and returns an error when a deletion fails for another reason.
C16_UnlinkErrorReported ==
  (/\ last.op = "truncate"
   /\ last.size >= 0
   /\ \E b \in (DOMAIN pfs[last.name]) \cap last.nounlink :
        b >= CeilBlocks(last.size) /\ b < SCAN_LIMIT)
    => last.rc # 0

\* C17: block_read returns an error when a block file of its range is
\* present and cannot be opened for a reason other than absence.
C17_ReadFailureReported ==
  (/\ last.op = "read"
   /\ last.size > 0
   /\ Touched(last.offset, last.size) \cap last.noread
        \cap DOMAIN pfs[last.name] # {})
    => last.rc < 0

\* C18: a partial-block block_write whose existing block file is present
\* and cannot be opened for reading returns an error and leaves that block
\* file as it was.
C18_UnreadableBlockFailsWrite ==
  (/\ last.op = "write"
   /\ last.size > 0
   /\ last.size < BLOCK_SIZE
   /\ last.nowrite = {})
    => \A b \in Touched(last.offset, last.size) \cap last.noread
                  \cap DOMAIN pfs[last.name] :
         last.rc < 0 /\ fs[last.name][b] = pfs[last.name][b]

FailedAt == SetMin(Touched(last.offset, last.size) \cap last.nowrite)
WriteFailed ==
  /\ last.op = "write"
  /\ Touched(last.offset, last.size) \cap last.nowrite # {}

\* C19: a block_write that fails at the k-th block of its range returns an
\* error, not a byte count; every block of the range before k holds the new
\* data and every block of the range after k is as before the call.
C19_NoRollback ==
  WriteFailed =>
    /\ last.rc < 0
    /\ \A k \in 0..(last.size - 1) :
         BlockNum(last.offset + k) < FailedAt =>
           ByteAt(fs[last.name], last.name, last.offset + k) = last.data[k + 1]
    /\ \A b \in Touched(last.offset, last.size) :
         b > FailedAt =>
           /\ b \in DOMAIN fs[last.name] <=> b \in DOMAIN pfs[last.name]
           /\ b \in DOMAIN fs[last.name] => fs[last.name][b] = pfs[last.name][b]

\* A write over three blocks has failed at the middle one: the first block
\* has changed and the third, with data in it, has not.
C19_Witness ==
  /\ WriteFailed
  /\ last.rc = -1
  /\ Touched(last.offset, last.size) = {0, 1, 2}
  /\ FailedAt = 1
  /\ 0 \in DOMAIN fs[last.name]
  /\ 0 \in DOMAIN pfs[last.name]
  /\ fs[last.name][0] # pfs[last.name][0]
  /\ 2 \in DOMAIN pfs[last.name]
  /\ HasData(pfs[last.name])
  /\ fs[last.name][2] = pfs[last.name][2]

\* "%s.blocks" of this name is longer than MAX_PATH_LEN - 1 characters.
DirTooLong(filename) == NameLen(filename) + 7 >= MAX_PATH_LEN

\* C20: open, read, write, truncate and size on a name whose composed
\* block-directory path exceeds MAX_PATH_LEN fail with an error and touch
\* neither a directory nor a block file.
C20_PathLengthChecked ==
  [][(/\ last = Idle
      /\ last'.op \in {"open", "read", "write", "truncate", "size"}
      /\ last'.name # NULL
      /\ DirTooLong(last'.name))
       => (last'.rc < 0 /\ fs' = fs /\ dirs' = dirs)]_vars

\* floor(offset / BLOCK_SIZE), with no conversion to int.
ExactBlock(offset) == offset \div BLOCK_SIZE

\* C21: the block file a successful block_write or block_read uses for the
\* byte at an offset is the one of index floor(offset / BLOCK_SIZE): after
\* the write that block file exists, and the read returns the byte stored in
\* it (zero where it is absent or shorter).
C21_BlockIndexExact ==
  /\ (WriteOk /\ last.size > 0) =>
       \A k \in 0..(last.size - 1) :
         ExactBlock(last.offset + k) \in DOMAIN fs[last.name]
  /\ (last.op = "read" /\ last.rc > 0) =>
       \A k \in 0..(last.size - 1) :
         last.buf[k + 1] =
           LoadBlock(fs[last.name], ExactBlock(last.offset + k))
             [BlockOffset(last.offset + k) + 1]

\* C22: every block_open returns success, also when another caller creates
\* the block directory between its stat and its mkdir.
C22_ConcurrentOpenSucceeds ==
  \A c \in Handles :
    (inflight[c].pc = "done" /\ inflight[c].op = "open") => inflight[c].rc = 0

\* C23: with block storage disabled no call through the VFS creates a block
\* directory; with block storage enabled, after a successful open of a
\* name its block directory exists.
C23_ModeSelectsForm ==
  [][/\ (~useBlockStorage /\ ~useBlockStorage') => dirs' \subseteq dirs
     /\ (last = Idle /\ useBlockStorage /\ last'.op = "xOpen"
           /\ last'.sqlite_rc = SQLITE_OK)
          => last'.name \in dirs']_vars

\* C24: in block-storage mode xDelete of a name returns SQLITE_OK, with or
\* without a block directory, and leaves neither block directory nor block
\* file of that name, so that its size is 0 and every byte reads as zero;
\* no other call removes a block directory.
C24_DeleteRemovesAll ==
  [][/\ (last = Idle /\ last'.op = "xDelete" /\ useBlockStorage
           /\ last'.name \in Names)
          => /\ last'.sqlite_rc = SQLITE_OK
             /\ last'.name \notin dirs'
             /\ DOMAIN fs'[last'.name] = {}
             /\ block_file_size(fs'[last'.name], last'.name) = 0
             /\ \A p \in Probe : ByteAt(fs'[last'.name], last'.name, p) = 0
     /\ ~(dirs \subseteq dirs') => (last'.op = "xDelete" /\ useBlockStorage)]_vars

\* xDelete has removed a block directory that held data, also in a block
\* beyond the scan limit of truncate.
C24_Witness ==
  /\ last.op = "xDelete"
  /\ last.sqlite_rc = SQLITE_OK
  /\ useBlockStorage
  /\ last.name = "a"
  /\ HasData(pfs["a"])
  /\ SCAN_LIMIT \in DOMAIN pfs["a"]
  /\ "a" \notin dirs
  /\ DOMAIN fs["a"] = {}

\* The reference model: an unbounded byte array, here at the positions of
\* Probe.  Abs is the array a set of block files stands for.
Abs(files, name) == [p \in Probe |-> ByteAt(files, name, p)]
ref_write(arr, data, size, offset) ==
  [p \in DOMAIN arr |->
     IF p >= offset /\ p < offset + size THEN data[p - offset + 1] ELSE arr[p]]
ref_truncate(arr, n) == [p \in DOMAIN arr |-> IF p >= n THEN 0 ELSE arr[p]]

\* The call and the block files it found lie below block SCAN_LIMIT.
Confined ==
  /\ \A b \in DOMAIN pfs[last.name] : b >= 0 /\ b < SCAN_LIMIT
  /\ last.offset + last.size <= SCAN_LIMIT * BLOCK_SIZE

\* C25: below block SCAN_LIMIT the block files refine a byte array that is
\* zero at first: a successful write sets the bytes of its range, a
\* successful truncate(n) zeroes every byte at a position >= n, and a read
\* returns the bytes of the array.
C25_RefinesByteArray ==
  /\ \A n \in Names : DOMAIN fs[n] = {} => \A p \in Probe : Abs(fs[n], n)[p] = 0
  /\ (WriteOk /\ Confined) =>
       Abs(fs[last.name], last.name)
         = ref_write(Abs(pfs[last.name], last.name), last.data, last.size,
                     last.offset)
  /\ (TruncateOk /\ Confined) =>
       Abs(fs[last.name], last.name)
         = ref_truncate(Abs(pfs[last.name], last.name), last.size)
  /\ (last.op = "read" /\ Confined) =>
       /\ last.rc = last.size
       /\ \A k \in 1..last.size :
            last.buf[k] = Abs(fs[last.name], last.name)[last.offset + k - 1]

\* C26: a successful block_truncate(newSize) leaves the byte read back at
\* every position < newSize unchanged.
C26_TruncatePreservesPrefix ==
  TruncateOk =>
    \A p \in Probe :
      p < last.size =>
        ByteAt(fs[last.name], last.name, p) = ByteAt(pfs[last.name], last.name, p)

\* C27: every existing block file has a length in [0, BLOCK_SIZE].
C27_BlockLength ==
  \A n \in Names :
    \A b \in DOMAIN fs[n] : Len(fs[n][b]) >= 0 /\ Len(fs[n][b]) <= BLOCK_SIZE

\* A truncate has shortened a block file next to a full one that a write
\* made.
C27_Witness ==
  /\ TruncateOk
  /\ \E b \in DOMAIN fs[last.name] :
       Len(fs[last.name][b]) > 0 /\ Len(fs[last.name][b]) < BLOCK_SIZE
  /\ \E b \in DOMAIN fs[last.name] : Len(fs[last.name][b]) = BLOCK_SIZE

\* C28: a block file shorter than BLOCK_SIZE is the highest-indexed block
\* file of its virtual file.
C28_OnlyLastShort ==
  \A n \in Names :
    \A b \in DOMAIN fs[n] :
      Len(fs[n][b]) < BLOCK_SIZE => \A c \in DOMAIN fs[n] : c <= b

\* Both callers have returned from two calls, the second begun before the
\* first was over and no third one overlapping them; pfs holds the block
\* files as the first of the two calls found them.
BothDone == \A c \in Handles : inflight[c].pc = "done"
Succeeded(c) ==
  IF inflight[c].op = "write" THEN inflight[c].rc = inflight[c].arg_size
  ELSE inflight[c].rc = 0
\* The bytes of writer c are in the block files.
Present(c) ==
  \A k \in 0..(inflight[c].arg_size - 1) :
    ByteAt(fs[inflight[c].name], inflight[c].name, inflight[c].arg_offset + k)
      = inflight[c].data[k + 1]
InRange(c, p) ==
  p >= inflight[c].arg_offset /\ p < inflight[c].arg_offset + inflight[c].arg_size
TwoWrites ==
  /\ BothDone
  /\ \A c \in Handles : inflight[c].op = "write"
  /\ inflight[1].arg_offset # inflight[2].arg_offset
  /\ BlockNum(inflight[1].arg_offset) = BlockNum(inflight[2].arg_offset)

\* A byte of the file is the byte the run of calls found there, or zero.
OldOrZero(p) ==
  ByteAt(fs["a"], "a", p) \in {ByteAt(pfs["a"], "a", p), 0}

\* C29: two partial block_write calls to disjoint ranges of one block both
\* return success under every interleaving and leave the bytes of at least
\* one writer in the block, and each byte outside both ranges as it was or
\* zero; the bytes of the other writer can be absent.
C29_LostUpdate ==
  TwoWrites =>
    /\ Succeeded(1) /\ Succeeded(2)
    /\ Present(1) \/ Present(2)
    /\ \A p \in 0..(2 * BLOCK_SIZE - 1) :
         (~InRange(1, p) /\ ~InRange(2, p)) => OldOrZero(p)

\* Both writers have returned success and the bytes of writer 1 are not in
\* the block.
C29_Witness ==
  /\ TwoWrites
  /\ Succeeded(1) /\ Succeeded(2)
  /\ ~Present(1)
  /\ Present(2)

\* Caller 1 has run block_truncate(newSize) and caller 2 a block_write into
\* the boundary block of that size.
TruncateAndWrite ==
  /\ BothDone
  /\ inflight[1].op = "truncate"
  /\ inflight[2].op = "write"
  /\ inflight[1].arg_size % BLOCK_SIZE # 0
  /\ BlockNum(inflight[2].arg_offset) = (inflight[1].arg_size - 1) \div BLOCK_SIZE

\* C30: a block_truncate(newSize) and a block_write into the boundary block
\* both return success under every interleaving and leave each byte below
\* newSize outside the write's range as it was or zero; the write's bytes
\* below newSize can be lost.
C30_TruncateWriteRace ==
  TruncateAndWrite =>
    /\ Succeeded(1) /\ Succeeded(2)
    /\ \A p \in 0..(inflight[1].arg_size - 1) : ~InRange(2, p) => OldOrZero(p)

\* Both have returned success and the byte the write stored below newSize
\* is not in the block.
C30_Witness ==
  /\ TruncateAndWrite
  /\ Succeeded(1) /\ Succeeded(2)
  /\ inflight[2].arg_offset + inflight[2].arg_size <= inflight[1].arg_size
  /\ ~Present(2)

\* Block file b of the file of the last call is as the call found it: there
\* or not, and with the same bytes.
SameBlock(b) ==
  IF b \in DOMAIN pfs[last.name]
  THEN b \in DOMAIN fs[last.name] /\ fs[last.name][b] = pfs[last.name][b]
  ELSE b \notin DOMAIN fs[last.name]

\* C31: a block_write of size bytes at offset leaves every block file whose
\* index is outside [offset / BLOCK_SIZE, (offset + size - 1) / BLOCK_SIZE]
\* as it was, and with size 0 it returns 0 and leaves every block file as it
\* was.
C31_WriteFrame ==
  last.op = "write" =>
    /\ \A b \in (DOMAIN fs[last.name]) \cup (DOMAIN pfs[last.name]) :
         (last.size = 0
            \/ b < ExactBlock(last.offset)
            \/ b > ExactBlock(last.offset + last.size - 1)) => SameBlock(b)
    /\ last.size = 0 => last.rc = 0

\* C32: block_read and block_file_size create, change, shorten and delete
\* no block file and no block directory, in any state and for any arguments.
C32_QueriesReadOnly ==
  [][last'.op \in {"read", "size"} => (fs' = fs /\ dirs' = dirs)]_vars

\* A block_read has returned whose range holds a block file that is not
\* there and one that truncate has left short.
C32_Witness ==
  /\ last.op = "read"
  /\ last.rc = last.size
  /\ fs = pfs
  /\ \E b \in Touched(last.offset, last.size) : b \notin DOMAIN fs[last.name]
  /\ \E b \in Touched(last.offset, last.size) :
       /\ b \in DOMAIN fs[last.name]
       /\ Len(fs[last.name][b]) < BLOCK_SIZE

\* C33: in every state that writes and truncates reach, every byte position
\* at or beyond block_file_size() reads back as zero.
C33_SizeCoversData ==
  \A p \in Probe :
    p >= block_file_size(fs["a"], "a") => ByteAt(fs["a"], "a", p) = 0

\* C34: under every interleaving of sqlite3_loggingvfs_set_block_storage
\* with xOpen and the I/O methods, a call on an open file goes to the
\* backend the file was opened with and dereferences no null backend
\* handle.
C34_DispatchStable ==
  /\ last # Crash
  /\ last.op \in {"xRead", "xWrite", "xTruncate", "xFileSize"} =>
       last.name = (IF handles[last.h] # NULL THEN handles[last.h]
                    ELSE reals[last.h])

\* The sub-spans the loops of block_read and block_write go through for
\* size bytes at offset: block_offset and to_read (to_write) of each
\* iteration, and the advance of offset and size to the next.
RECURSIVE Spans(_, _)
Spans(size, offset) ==
  IF size <= 0 THEN <<>>
  ELSE LET block_offset == BlockOffset(offset)
           to_read == ToRead(size, block_offset)
       IN <<[offset |-> offset, block_offset |-> block_offset, len |-> to_read]>>
            \o Spans(size - to_read, offset + to_read)

RECURSIVE SumLen(_)
SumLen(spans) ==
  IF spans = <<>> THEN 0 ELSE spans[1].len + SumLen(Tail(spans))

\* C35: a block_read or block_write with valid arguments returns after at
\* most size iterations; each iteration handles between 1 and BLOCK_SIZE
\* bytes inside one block, the sub-spans follow one another without a gap
\* from offset on, and their lengths sum to size, the result of the call.
C35_LoopSplits ==
  last.op \in {"read", "write"} =>
    LET spans == Spans(last.size, last.offset)
    IN /\ Len(spans) <= last.size
       /\ \A i \in 1..Len(spans) :
            /\ spans[i].len >= 1
            /\ spans[i].len <= BLOCK_SIZE
            /\ spans[i].block_offset + spans[i].len <= BLOCK_SIZE
            /\ spans[i].offset =
                 IF i = 1 THEN last.offset
                 ELSE spans[i - 1].offset + spans[i - 1].len
       /\ SumLen(spans) = last.size
       /\ last.rc = last.size
       /\ {BlockNum(spans[i].offset) : i \in 1..Len(spans)}
            = Touched(last.offset, last.size)

\* A write has returned that began inside one block, covered the next and
\* ended inside a third.
C35_Witness ==
  /\ last.op = "write"
  /\ last.rc = last.size
  /\ Len(Spans(last.size, last.offset)) = 3
  /\ Spans(last.size, last.offset)[1].len < BLOCK_SIZE
  /\ Spans(last.size, last.offset)[2].len = BLOCK_SIZE
  /\ Spans(last.size, last.offset)[3].len < BLOCK_SIZE

\* C38: in block-storage mode xAccess(EXISTS) on a name reports that it
\* exists exactly when the name has a block directory.
C38_AccessMatchesBlocks ==
  (last.op = "xAccess" /\ useBlockStorage /\ last.name \in Names) =>
    (last.rc = 1 <=> last.name \in dirs)

\* C36: in block-storage mode xLock and xUnlock return SQLITE_OK and
\* xCheckReservedLock reports no reserved lock, whatever the locks granted
\* through the other handles on the file; two handles can hold an EXCLUSIVE
\* lock at once.
C36_NoLockExclusion ==
  (last.op \in {"xLock", "xUnlock", "xCheckReservedLock"}
     /\ Backend(last.h) = "block") =>
    /\ last.sqlite_rc = SQLITE_OK
    /\ last.op = "xCheckReservedLock" => last.rc = 0
    /\ last.op = "xLock" => granted[last.h] >= last.size

\* Both handles are open on "a" in block mode and the second has just been
\* granted EXCLUSIVE while the first holds it.
C36_Witness ==
  /\ last.op = "xLock"
  /\ last.sqlite_rc = SQLITE_OK
  /\ \A h \in Handles : Backend(h) = "block" /\ handles[h] = "a"
  /\ \A h \in Handles : granted[h] = SQLITE_LOCK_EXCLUSIVE

\* C37: a VFS call ends with logging on as it ends with logging off, with
\* the same result code and the same files and blocks; in block mode xRead
\* returns SQLITE_OK exactly for a block_read result that is not negative,
\* and xWrite exactly for a block_write result equal to the amount, the
\* block files being those block_write leaves.
C37_LoggingTransparent ==
  [][/\ \A h \in Handles : loggingClose(h) => loggingCloseWith(h, FALSE)
     /\ (last = Idle /\ last'.op = "xRead" /\ Backend(last'.h) = "block") =>
          last'.sqlite_rc =
            IF block_read(fs[last'.name], last'.name, Buffer(last'.size),
                          last'.size, last'.offset).rc >= 0
            THEN SQLITE_OK ELSE SQLITE_IOERR_READ
     /\ (last = Idle /\ last'.op = "xWrite" /\ Backend(last'.h) = "block") =>
          LET r == block_write(fs[last'.name], last'.name \in dirs, last'.name,
                               last'.data, last'.size, last'.offset)
          IN /\ last'.sqlite_rc = IF r.rc = last'.size THEN SQLITE_OK
                                  ELSE SQLITE_IOERR_WRITE
             /\ fs'[last'.name] = r.files]_vars

====
